---- MODULE Spec2Model ----
(***************************************************************************)
(* OptiPix: the client-side image pipeline of src/src/App.tsx              *)
(* (optimizeImage, generateFavicon, processFiles and the option handlers   *)
(* of the ImageOptimizer component) and the older helper module            *)
(* src/unnamed/part_000.                                                   *)
(*                                                                         *)
(* A file name is modelled as the sequence of its dot-separated segments,  *)
(* each segment a sequence of tokens (words or digits) that are written    *)
(* one after the other: "a.b.png" is <<<<"a">>, <<"b">>, <<"png">>>>,       *)
(* "shot." is <<<<"shot">>, <<>>>> and "icon-16.png" is                     *)
(* <<<<"icon-", "1", "6">>, <<"png">>>>.  A mime type is the sequence of    *)
(* its slash-separated segments ("image/png" is <<"image", "png">>, "" is  *)
(* <<>>).  A blob carries, beside its name and type tag, the encoding its  *)
(* payload really has (enc), the surface dimensions and the quality (in    *)
(* percent) it was encoded at.                                             *)
(***************************************************************************)
EXTENDS Integers, Sequences, FiniteSets, TLC

VARIABLES
    opt,            \* one call of optimizeImage
    fav,            \* one call of generateFavicon
    pwa,            \* one call of generatePWAIcons
    files,          \* useState: the displayed results (OptimizedFile[])
    isProcessing,   \* useState: the processing flag
    activeTab,      \* useState: "optimize", "favicon" or "pwa"
    inputFiles,     \* useState: the files selected last
    options,        \* useState: the optimization options
    faviconOptions, \* useState: the favicon options
    pwaOptions,     \* useState: the PWA options
    runs,           \* the calls of processFiles, in the order they were made
    urls,           \* the object URLs created so far: "live" or "revoked"
    userEvents,     \* how many user events the component has handled
    mounted,        \* whether the component is mounted
    links,          \* the object URLs made for a download or a HEIC preview
    removed         \* history: the files whose result was removed since the
                    \* last selection, each with the number of runs made before

\* The state of the ImageOptimizer component and of the browser around it.
uiVars ==
    <<files, isProcessing, activeTab, inputFiles, options, faviconOptions,
      pwaOptions, runs, urls, userEvents, mounted, links, removed>>

vars == <<opt, fav, pwa, uiVars>>

(***************************************************************************)
(* Strings and blobs                                                       *)
(***************************************************************************)

\* String.prototype.toLowerCase on the tokens the model uses.
tokenToLowerCase(s) ==
    CASE s = "HEIC" -> "heic"
      [] s = "Heic" -> "heic"
      [] s = "IMG" -> "img"
      [] OTHER -> s

\* String.prototype.toLowerCase on a name.
toLowerCase(name) ==
    [i \in 1..Len(name) |->
        [j \in 1..Len(name[i]) |-> tokenToLowerCase(name[i][j])]]

\* name.toLowerCase().endsWith('.heic')
endsWithHeic(name) ==
    /\ Len(name) >= 2
    /\ toLowerCase(name)[Len(name)] = <<"heic">>

\* The decimal digits of a natural number, as `${n}` writes them.
RECURSIVE digits(_)
digits(n) ==
    LET d == <<"0", "1", "2", "3", "4", "5", "6", "7", "8", "9">>
    IN  IF n < 10 THEN <<d[n + 1]>>
        ELSE Append(digits(n \div 10), d[(n % 10) + 1])

\* file.type.startsWith("image/")
startsWithImage(type) ==
    /\ Len(type) >= 2
    /\ type[1] = "image"

\* name.replace(/\.[^/.]+$/, ''): drops the last segment when a dot is
\* followed by at least one character.
stripExtension(name) ==
    IF Len(name) >= 2 /\ name[Len(name)] # <<>>
    THEN SubSeq(name, 1, Len(name) - 1)
    ELSE name

\* name.replace(/\.[^/.]+$/, '') + '.' + ext
replaceExtension(name, ext) == Append(stripExtension(name), <<ext>>)

\* new File([blob], name, {type}): fill is what the surface was filled with
\* before the image was drawn on it ("none" for a payload no canvas made).
File(name, type, enc, width, height, quality, fill) ==
    [name |-> name, type |-> type, enc |-> enc,
     width |-> width, height |-> height, quality |-> quality, fill |-> fill]

\* The value of a variable that holds no file (yet).
NoFile == File(<<>>, <<>>, "none", 0, 0, 0, "none")

\* The encodings the Image element decodes; HEIC is not among them.
RasterEncodings == {"png", "jpeg", "webp", "avif"}

\* img.onload fires (and not img.onerror) only for a decodable payload.
imageDecodes(file) == file.enc \in RasterEncodings

\* heic2any resolves only for a HEIC payload.
heicDecodes(file) == file.enc = "heic"

\* canvas.toBlob(cb, type, q): the encoding the payload gets.  png, jpeg
\* and webp are encoded as asked, avif only where the runtime supports it,
\* and any other type falls back to png.
toBlobEncodings(type) ==
    IF type \in {<<"image", "png">>, <<"image", "jpeg">>, <<"image", "webp">>}
    THEN {type[2]}
    ELSE IF type = <<"image", "avif">> THEN {"avif", "png"}
    ELSE {"png"}

\* The quality a payload of encoding enc keeps of the quality asked for:
\* the png encoder is lossless and ignores the argument.
encodedQuality(enc, quality) == IF enc = "png" THEN 100 ELSE quality

(***************************************************************************)
(* Format conversions and resize (imageOptimization.ts).  Each is the blob *)
(* the promise resolves with; enc is the encoding toBlob produced.         *)
(***************************************************************************)

\* A call on the 2D context of a canvas.
ContextCall(op, style) == [op |-> op, style |-> style]

\* The calls of convertToWebP, convertToAVIF and convertToPNG on the
\* context, in the order of the statements.
plainContextCalls == <<ContextCall("drawImage", "none")>>

\* jpegContextCalls with the rectangle filled after the image is drawn.
jpegContextCallsDrawFirst ==
    <<ContextCall("drawImage", "none"), ContextCall("fillRect", "#fff")>>

\* The calls of convertToJPEG on the context: fillStyle = '#fff',
\* fillRect over the whole canvas, drawImage.
jpegContextCalls ==
    <<ContextCall("fillRect", "#fff"), ContextCall("drawImage", "none")>>

\* What the whole surface is filled with when the image is drawn on it:
\* the style of the last fillRect before drawImage, "none" without one.
filledBeforeDraw(calls) ==
    LET draw == CHOOSE i \in 1..Len(calls) :
                    /\ calls[i].op = "drawImage"
                    /\ \A j \in 1..(i - 1) : calls[j].op # "drawImage"
        fills == {i \in 1..(draw - 1) : calls[i].op = "fillRect"}
    IN  IF fills = {} THEN "none"
        ELSE calls[CHOOSE i \in fills : \A j \in fills : j <= i].style

convertToWebP(file, quality, enc) ==
    File(replaceExtension(file.name, "webp"), <<"image", "webp">>, enc,
         file.width, file.height, encodedQuality(enc, quality),
         filledBeforeDraw(plainContextCalls))

convertToAVIF(file, quality, enc) ==
    File(replaceExtension(file.name, "avif"), <<"image", "avif">>, enc,
         file.width, file.height, encodedQuality(enc, quality),
         filledBeforeDraw(plainContextCalls))

\* convertToJPEG with the extension spelled like the format tag.
convertToJPEGAsDotJpeg(file, quality, enc) ==
    File(replaceExtension(file.name, "jpeg"), <<"image", "jpeg">>, enc,
         file.width, file.height, encodedQuality(enc, quality), "#fff")

convertToJPEG(file, quality, enc) ==
    File(replaceExtension(file.name, "jpg"), <<"image", "jpeg">>, enc,
         file.width, file.height, encodedQuality(enc, quality),
         filledBeforeDraw(jpegContextCalls))

convertToPNG(file, quality, enc) ==
    File(replaceExtension(file.name, "png"), <<"image", "png">>, enc,
         file.width, file.height, encodedQuality(enc, quality),
         filledBeforeDraw(plainContextCalls))

\* The fixed quality of resizeImage, in percent (0.9).
ResizeQuality == 90

\* resizeImage that fits the image into the box and keeps its proportions.
resizeImageFit(file, width, height, enc) ==
    IF width * file.height <= height * file.width
    THEN File(file.name, file.type, enc, width,
              (file.height * width) \div file.width,
              encodedQuality(enc, ResizeQuality), "none")
    ELSE File(file.name, file.type, enc,
              (file.width * height) \div file.height, height,
              encodedQuality(enc, ResizeQuality), "none")

\* canvas.width = width, canvas.height = height, drawImage stretched over
\* it, toBlob(cb, file.type, 0.9), new File([blob], file.name, {type:
\* file.type}).
resizeImage(file, width, height, enc) ==
    File(file.name, file.type, enc, width, height,
         encodedQuality(enc, ResizeQuality), "none")

\* quality is the fraction handed to heic2any, in percent.
convertFromHEIC(file, targetFormat, quality) ==
    LET outputType == IF targetFormat = "jpeg" THEN <<"image", "jpeg">>
                      ELSE <<"image", "png">>
        ext == IF targetFormat = "jpeg" THEN "jpg" ELSE "png"
    IN  File(replaceExtension(file.name, ext), outputType, targetFormat,
             file.width, file.height, encodedQuality(targetFormat, quality),
             "none")

(***************************************************************************)
(* optimizeImage (App.tsx 878-923) as a process: opt.pc is "idle" before   *)
(* the call, "await" while the promise of stage opt.stage is pending,      *)
(* "returned" or "thrown" after.  opt.log records, in order, the start and *)
(* the settlement of every stage, with the blob passed or produced.        *)
(* opt.heap holds the File objects of the call, the file given first:      *)
(* opt.obj is the object processedFile refers to, and a log entry names    *)
(* the object passed or produced beside its content.                       *)
(***************************************************************************)

\* The configurations of the options panel: the recognized format tags.
RecognizedFormats == {"webp", "jpeg", "png", "avif", "heic", "original"}

\* The stages in the order of the statements of optimizeImage.
stageOrder == <<"heic", "resize", "convert">>

\* stageGate with a resize that one positive dimension enables.
stageGateEitherDimension(stage, file, opts) ==
    CASE stage = "heic" ->
            file.type = <<"image", "heic">> \/ endsWithHeic(file.name)
      [] stage = "resize" ->
            opts.maxWidth # 0 \/ opts.maxHeight # 0
      [] stage = "convert" ->
            /\ opts.format # "original" /\ opts.format # "heic"
            /\ opts.format \in {"webp", "jpeg", "png", "avif"}

\* stageGate with a HEIC input left alone when the format asked for is heic.
stageGateHeicPassthrough(stage, file, opts) ==
    CASE stage = "heic" ->
            /\ file.type = <<"image", "heic">> \/ endsWithHeic(file.name)
            /\ opts.format # "heic"
      [] stage = "resize" ->
            opts.maxWidth # 0 /\ opts.maxHeight # 0
      [] stage = "convert" ->
            /\ opts.format # "original" /\ opts.format # "heic"
            /\ opts.format \in {"webp", "jpeg", "png", "avif"}

\* stageGate with a resize that is always done.
stageGateResizeAlways(stage, file, opts) ==
    CASE stage = "heic" ->
            file.type = <<"image", "heic">> \/ endsWithHeic(file.name)
      [] stage = "resize" -> TRUE
      [] stage = "convert" ->
            /\ opts.format # "original" /\ opts.format # "heic"
            /\ opts.format \in {"webp", "jpeg", "png", "avif"}

\* The condition of the if statement in front of each stage.
stageGate(stage, file, opts) ==
    CASE stage = "heic" ->
            file.type = <<"image", "heic">> \/ endsWithHeic(file.name)
      [] stage = "resize" ->
            opts.maxWidth # 0 /\ opts.maxHeight # 0
      [] stage = "convert" ->
            /\ opts.format # "original" /\ opts.format # "heic"
            /\ opts.format \in {"webp", "jpeg", "png", "avif"}

\* stageInput with every stage called on the file optimizeImage was given.
stageInputOriginalFile(o) == o.file

\* The blob a stage is called with.
stageInput(o) == o.processedFile

\* The blobs a stage may resolve with, called with blob input.
stageOutputs(stage, input, opts) ==
    CASE stage = "heic" ->
            {convertFromHEIC(input, "jpeg", opts.quality)}
      [] stage = "resize" ->
            {resizeImage(input, opts.maxWidth, opts.maxHeight, enc) :
                enc \in toBlobEncodings(input.type)}
      [] stage = "convert" ->
            CASE opts.format = "webp" ->
                    {convertToWebP(input, opts.quality, enc) :
                        enc \in toBlobEncodings(<<"image", "webp">>)}
              [] opts.format = "jpeg" ->
                    {convertToJPEG(input, opts.quality, enc) :
                        enc \in toBlobEncodings(<<"image", "jpeg">>)}
              [] opts.format = "png" ->
                    {convertToPNG(input, opts.quality, enc) :
                        enc \in toBlobEncodings(<<"image", "png">>)}
              [] opts.format = "avif" ->
                    {convertToAVIF(input, opts.quality, enc) :
                        enc \in toBlobEncodings(<<"image", "avif">>)}

\* Whether the decoder a stage uses reads the blob it is called with.
stageDecodes(stage, input) ==
    IF stage = "heic" THEN heicDecodes(input) ELSE imageDecodes(input)

\* The errors a stage may reject with.
stageErrors(stage, input) ==
    IF stage = "heic"
    THEN {"heic2any failed"}
    ELSE IF ~imageDecodes(input)
         THEN {"Image loading error"}
         ELSE {"File reading error", "Could not create canvas context",
               "Canvas to Blob conversion failed"}

\* The toasts shown when a stage is started.
stageToasts(stage, opts) ==
    CASE stage = "heic" -> <<"info: Converting HEIC image to JPEG">>
      [] stage = "convert" /\ opts.format = "png" ->
            <<"warning: PNG quality parameter has no effect">>
      [] OTHER -> <<>>

\* The code from position `from` of stageOrder on, up to the next await or
\* to the return: the first stage whose condition holds is called.
optContinue(o, from) ==
    LET open == {k \in from..Len(stageOrder) :
                    stageGate(stageOrder[k], o.file, o.options)}
    IN  IF open = {}
        THEN [o EXCEPT !.pc = "returned", !.stage = "none",
                       !.result = o.processedFile]
        ELSE LET k == CHOOSE i \in open : \A j \in open : i <= j
                 stage == stageOrder[k]
             IN  [o EXCEPT !.pc = "await", !.stage = stage, !.at = k,
                           !.log = Append(@, [stage |-> stage, ev |-> "start",
                                              file |-> stageInput(o),
                                              obj |-> o.obj]),
                           !.toasts = @ \o stageToasts(stage, o.options)]

\* newFile that writes the name, type and payload into the object the
\* stage was called with.
newFileInPlace(heap, input, out) ==
    [heap |-> [heap EXCEPT ![input] = out], obj |-> input]

\* new File([blob], name, {type}) in a stage called with object `input`:
\* an object of its own, the others untouched.
newFile(heap, input, out) ==
    [heap |-> Append(heap, out), obj |-> Len(heap) + 1]

\* The state before the call optimizeImage(file, options); entry is the
\* function that is called.
optIdle(file, opts) ==
    [pc |-> "idle", entry |-> "optimizeImage", file |-> file,
     options |-> opts, heap |-> <<file>>, obj |-> 0,
     processedFile |-> NoFile, stage |-> "none", at |-> 0, log |-> <<>>,
     toasts |-> <<>>, console |-> <<>>, result |-> NoFile,
     error |-> [stage |-> "none", message |-> "none"]]

\* optimizeImage(file, options), up to its first await.
OptCall ==
    /\ opt.pc = "idle"
    /\ opt' = optContinue([opt EXCEPT !.processedFile = opt.file,
                                      !.obj = 1], 1)
    /\ UNCHANGED <<fav, pwa, uiVars>>

\* A conversion function is called by itself, not by optimizeImage:
\* convertToWebP, convertToJPEG, convertToPNG or convertToAVIF(file,
\* quality), as options.format says.  None of them shows a toast.
ConvertCall ==
    /\ opt.pc = "idle"
    /\ opt.options.format \in {"webp", "jpeg", "png", "avif"}
    /\ opt' = [opt EXCEPT
            !.entry = "convert",
            !.pc = "await", !.stage = "convert", !.at = Len(stageOrder),
            !.processedFile = opt.file, !.obj = 1,
            !.log = Append(@, [stage |-> "convert", ev |-> "start",
                               file |-> opt.file, obj |-> 1])]
    /\ UNCHANGED <<fav, pwa, uiVars>>

\* The pending stage resolves: processedFile is assigned and the function
\* runs on.
OptResolve ==
    /\ opt.pc = "await"
    /\ LET input == opt.log[Len(opt.log)].file
       IN  /\ stageDecodes(opt.stage, input)
           /\ \E out \in stageOutputs(opt.stage, input, opt.options) :
                LET made == newFile(opt.heap, opt.log[Len(opt.log)].obj, out)
                IN  opt' = optContinue(
                        [opt EXCEPT !.processedFile = out,
                                    !.heap = made.heap,
                                    !.obj = made.obj,
                                    !.log = Append(@, [stage |-> opt.stage,
                                                       ev |-> "resolve",
                                                       file |-> out,
                                                       obj |-> made.obj])],
                        opt.at + 1)
    /\ UNCHANGED <<fav, pwa, uiVars>>

\* OptReject with a catch that logs and returns what it has so far.
OptRejectReturnsPartial ==
    /\ opt.pc = "await"
    /\ opt' = [opt EXCEPT
            !.pc = "returned",
            !.log = Append(@, [stage |-> opt.stage, ev |-> "reject",
                               file |-> opt.log[Len(opt.log)].file,
                               obj |-> opt.log[Len(opt.log)].obj]),
            !.console = Append(@, "Optimization error"),
            !.result = opt.processedFile]
    /\ UNCHANGED <<fav, pwa, uiVars>>

\* The pending stage rejects: convertFromHEIC shows its toast, the catch
\* of optimizeImage logs and rethrows (a conversion function called by
\* itself just rejects).
OptReject ==
    /\ opt.pc = "await"
    /\ LET input == opt.log[Len(opt.log)].file
       IN  \E message \in stageErrors(opt.stage, input) :
             opt' = [opt EXCEPT
                 !.pc = "thrown",
                 !.log = Append(@, [stage |-> opt.stage, ev |-> "reject",
                                    file |-> input,
                                    obj |-> opt.log[Len(opt.log)].obj]),
                 !.toasts = IF opt.stage = "heic"
                            THEN Append(@, "error: Failed to convert HEIC image.")
                            ELSE @,
                 !.console = IF opt.entry = "optimizeImage"
                             THEN Append(@, "Optimization error")
                             ELSE @,
                 !.error = [stage |-> opt.stage, message |-> message]]
    /\ UNCHANGED <<fav, pwa, uiVars>>

(***************************************************************************)
(* generateFavicon (App.tsx 925-952) and generateIcoFile (1066-1073).      *)
(* The callbacks of options.sizes.map run concurrently: task i awaits      *)
(* resizeImage ("resize"), then createCanvasFromFile ("canvas"), and is    *)
(* "done" or "rejected".  fav.pc is "idle", "all" while Promise.all is     *)
(* pending, "encode" while toBlob is pending, "returned" or "thrown".      *)
(***************************************************************************)

\* A surface: task is the callback that created it (its identity).
Canvas(width, height, task) ==
    [width |-> width, height |-> height, task |-> task]

NoCanvas == Canvas(0, 0, 0)

\* createCanvasFromFile(file): canvas.width = img.width, canvas.height =
\* img.height.
createCanvasFromFile(file, task) == Canvas(file.width, file.height, task)

\* Math.max(...sizes) of a non-empty list.
RECURSIVE mathMax(_)
mathMax(sizes) ==
    IF Len(sizes) = 1 THEN sizes[1]
    ELSE LET rest == mathMax(Tail(sizes))
         IN  IF sizes[1] >= rest THEN sizes[1] ELSE rest

\* sizes.indexOf(x), counted from 1; 0 when x is not an element (-1 in the
\* source).
indexOf(sizes, x) ==
    IF \E i \in 1..Len(sizes) : sizes[i] = x
    THEN CHOOSE i \in 1..Len(sizes) :
            /\ sizes[i] = x
            /\ \A j \in 1..(i - 1) : sizes[j] # x
    ELSE 0

\* reduceLargest with the comparison turned round.
RECURSIVE reduceSmallest(_, _)
reduceSmallest(a, rest) ==
    IF rest = <<>> THEN a
    ELSE reduceSmallest(IF a.width < rest[1].width THEN a ELSE rest[1],
                        Tail(rest))

\* reduceLargest with a callback that keeps the accumulator.
reduceKeepsFirst(a, rest) == a

\* reduceLargest with a callback that takes the current element.
reduceTakesLast(a, rest) == IF rest = <<>> THEN a ELSE rest[Len(rest)]

\* generateIcoFile of part_000: canvases.reduce((prev, current) =>
\* (current.width > prev.width) ? current : prev), which keeps the
\* accumulator on a tie.
RECURSIVE reduceLargestKeepsTies(_, _)
reduceLargestKeepsTies(a, rest) ==
    IF rest = <<>> THEN a
    ELSE reduceLargestKeepsTies(
            IF a.width >= rest[1].width THEN a ELSE rest[1], Tail(rest))

\* canvases.reduce((a, b) => (a.width > b.width ? a : b)) of a non-empty
\* list: the accumulator a starts as the first element.
RECURSIVE reduceLargest(_, _)
reduceLargest(a, rest) ==
    IF rest = <<>> THEN a
    ELSE reduceLargest(IF a.width > rest[1].width THEN a ELSE rest[1],
                       Tail(rest))

\* pngCanvasIndex that takes the first canvas for the largest.
pngCanvasIndexFirst(sizes) == 1

\* The surface the png branch encodes: canvases[index].
pngCanvasIndex(sizes) == indexOf(sizes, mathMax(sizes))

\* promiseAll that hands the results over in the order the tasks settled.
promiseAllAsSettled(tasks, settled) ==
    [k \in 1..Len(settled) |-> tasks[settled[k]].canvas]

\* await Promise.all(array.map(async ...)): the results of the tasks, in
\* the order of the array whatever the order `settled` they resolved in.
promiseAll(tasks, settled) ==
    [i \in 1..Len(tasks) |-> tasks[i].canvas]

\* The state before the call generateFavicon(file, options); settled
\* lists the tasks that have made their canvas, in the order they did.
favIdle(file, opts) ==
    [pc |-> "idle", file |-> file, options |-> opts, tasks |-> <<>>,
     settled |-> <<>>,
     canvases |-> <<>>, picked |-> NoCanvas, largestSize |-> 0,
     result |-> NoFile, error |-> "none"]

\* generateFavicon(file, options) up to its first await: every callback
\* of the map has called resizeImage(file, size, size).
FavCall ==
    /\ fav.pc = "idle"
    /\ fav' = [fav EXCEPT
            !.pc = "all",
            !.tasks = [i \in 1..Len(fav.options.sizes) |->
                         [pc |-> "resize", size |-> fav.options.sizes[i],
                          resized |-> NoFile, canvas |-> NoCanvas]]]
    /\ UNCHANGED <<opt, pwa, uiVars>>

\* A rejection of task i rejects Promise.all, unless it is settled already.
favTaskRejected(f, i, message) ==
    [f EXCEPT !.tasks[i].pc = "rejected",
              !.pc = IF f.pc = "all" THEN "thrown" ELSE @,
              !.error = IF f.pc = "all" THEN message ELSE @]

\* resizeImage of task i resolves; the task calls createCanvasFromFile.
FavResizeResolve(i) ==
    /\ fav.tasks[i].pc = "resize"
    /\ imageDecodes(fav.file)
    /\ \E enc \in toBlobEncodings(fav.file.type) :
         fav' = [fav EXCEPT
            !.tasks[i].pc = "canvas",
            !.tasks[i].resized =
                resizeImage(fav.file, fav.tasks[i].size, fav.tasks[i].size, enc)]
    /\ UNCHANGED <<opt, pwa, uiVars>>

\* resizeImage of task i rejects.
FavResizeReject(i) ==
    /\ fav.tasks[i].pc = "resize"
    /\ \E message \in stageErrors("resize", fav.file) :
         fav' = favTaskRejected(fav, i, message)
    /\ UNCHANGED <<opt, pwa, uiVars>>

\* createCanvasFromFile of task i resolves with its canvas.
FavCanvasResolve(i) ==
    /\ fav.tasks[i].pc = "canvas"
    /\ imageDecodes(fav.tasks[i].resized)
    /\ fav' = [fav EXCEPT
            !.tasks[i].pc = "done",
            !.tasks[i].canvas = createCanvasFromFile(fav.tasks[i].resized, i),
            !.settled = Append(@, i)]
    /\ UNCHANGED <<opt, pwa, uiVars>>

\* createCanvasFromFile of task i rejects.
FavCanvasReject(i) ==
    /\ fav.tasks[i].pc = "canvas"
    /\ \E message \in {"File reading error", "Image loading error",
                       "Could not create canvas context"} :
         fav' = favTaskRejected(fav, i, message)
    /\ UNCHANGED <<opt, pwa, uiVars>>

\* Promise.all resolves with the canvases in the order of options.sizes;
\* the branch on outputFormat runs up to its toBlob.  With no canvas,
\* reduce throws a TypeError and canvases[-1].toBlob does too.
FavAll ==
    /\ fav.pc = "all"
    /\ \A i \in 1..Len(fav.tasks) : fav.tasks[i].pc = "done"
    /\ LET canvases == promiseAll(fav.tasks, fav.settled)
           sizes == fav.options.sizes
       IN  fav' =
            IF canvases = <<>>
            THEN [fav EXCEPT !.pc = "thrown", !.error = "TypeError"]
            ELSE IF fav.options.outputFormat = "ico"
            THEN [fav EXCEPT
                    !.pc = "encode", !.canvases = canvases,
                    !.picked = reduceLargest(canvases[1], Tail(canvases))]
            ELSE [fav EXCEPT
                    !.pc = "encode", !.canvases = canvases,
                    !.largestSize = mathMax(sizes),
                    !.picked = canvases[pngCanvasIndex(sizes)]]
    /\ UNCHANGED <<opt, pwa, uiVars>>

\* The file generateFavicon and generateIcoFile make of the canvas picked.
faviconFile(outputFormat, picked, largestSize) ==
    IF outputFormat = "ico"
    THEN File(<<<<"favicon">>, <<"ico">>>>, <<"image", "x-icon">>, "png",
              picked.width, picked.height, 100, "none")
    ELSE File(<<<<"favicon-">> \o digits(largestSize)
                   \o <<"x">> \o digits(largestSize),
                <<"png">>>>,
              <<"image", "png">>, "png",
              picked.width, picked.height, 100, "none")

\* toBlob hands over a blob: the file is made.
FavEncodeResolve ==
    /\ fav.pc = "encode"
    /\ fav.picked.width > 0 /\ fav.picked.height > 0
    /\ fav' = [fav EXCEPT
            !.pc = "returned",
            !.result = faviconFile(fav.options.outputFormat, fav.picked,
                                   fav.largestSize)]
    /\ UNCHANGED <<opt, pwa, uiVars>>

\* toBlob hands over null: the function throws.
FavEncodeNull ==
    /\ fav.pc = "encode"
    /\ fav' = [fav EXCEPT
            !.pc = "thrown",
            !.error = IF fav.options.outputFormat = "ico"
                      THEN "Failed to create ICO blob"
                      ELSE "Failed to create PNG blob"]
    /\ UNCHANGED <<opt, pwa, uiVars>>

(***************************************************************************)
(* generatePWAIcons, in its two variants: "sequential" is App.tsx 954-1027 *)
(* (one item after the other, each encoded and inserted before the next is *)
(* started; returns the archive and the previews), "parallel" is           *)
(* part_000 151-247 (Promise.all over the icons, over the splash screens,  *)
(* over the icon encodes and over the splash encodes; returns the          *)
(* archive).  pwa.tasks holds the icons, then the splash screens; a task   *)
(* is "waiting", awaits resizeImage ("resize"), createCanvasFromFile       *)
(* ("canvas"), createImageFromFile ("image") or toBlob ("blob"), is        *)
(* "ready" between the Promise.all that made its canvas and the one that   *)
(* encodes it, and "done" at the end.  pwa.zip is the archive under        *)
(* construction: its entries in the order of their insertion.              *)
(* pwa.settled lists the tasks of the pending Promise.all (of the call, in *)
(* App.tsx) that have made their canvas, in the order they did.            *)
(***************************************************************************)

\* `icon-${size}x${size}.png`
iconName(size) ==
    <<<<"icon-">> \o digits(size) \o <<"x">> \o digits(size), <<"png">>>>

\* `splash-${width}x${height}.png`
splashName(width, height) ==
    <<<<"splash-">> \o digits(width) \o <<"x">> \o digits(height), <<"png">>>>

manifestName == <<<<"manifest">>, <<"json">>>>

\* manifest with a theme colour of its own.
manifestWhiteTheme(opts) ==
    <<[key |-> "name", value |-> "My PWA"],
      [key |-> "short_name", value |-> "PWA"],
      [key |-> "icons",
       value |-> [i \in 1..Len(opts.iconSizes) |->
                    <<[key |-> "src", value |-> iconName(opts.iconSizes[i])],
                      [key |-> "sizes",
                       value |-> digits(opts.iconSizes[i]) \o <<"x">>
                                    \o digits(opts.iconSizes[i])],
                      [key |-> "type", value |-> <<"image", "png">>]>>]],
      [key |-> "background_color", value |-> opts.backgroundColor],
      [key |-> "theme_color", value |-> "#ffffff"],
      [key |-> "display", value |-> "standalone"]>>

\* The object handed to JSON.stringify: its keys in the order they are
\* written, which is the order JSON.stringify keeps.
manifest(opts) ==
    <<[key |-> "name", value |-> "My PWA"],
      [key |-> "short_name", value |-> "PWA"],
      [key |-> "icons",
       value |-> [i \in 1..Len(opts.iconSizes) |->
                    <<[key |-> "src", value |-> iconName(opts.iconSizes[i])],
                      [key |-> "sizes",
                       value |-> digits(opts.iconSizes[i]) \o <<"x">>
                                    \o digits(opts.iconSizes[i])],
                      [key |-> "type", value |-> <<"image", "png">>]>>]],
      [key |-> "background_color", value |-> opts.backgroundColor],
      [key |-> "theme_color", value |-> opts.backgroundColor],
      [key |-> "display", value |-> "standalone"]>>

\* zip.file(name, data): a name the archive has already keeps its place
\* and gets the new data.
zipFile(zip, entry) ==
    IF \E k \in 1..Len(zip) : zip[k].name = entry.name
    THEN [k \in 1..Len(zip) |->
            IF zip[k].name = entry.name THEN entry ELSE zip[k]]
    ELSE Append(zip, entry)

\* previewsPush that puts the descriptor in front.
previewsUnshift(previews, descriptor) == <<descriptor>> \o previews

\* previews.push(descriptor)
previewsPush(previews, descriptor) == Append(previews, descriptor)

\* Where the image is drawn on a splash canvas.  Lengths are in tenths of
\* a pixel, which Math.min(width, height) * 0.8 is a whole number of.
Drawn(imageSize, x, y) == [imageSize |-> imageSize, x |-> x, y |-> y]

\* splashLayout that draws the image in the top left corner.
splashLayoutTopLeft(width, height) ==
    Drawn((IF width <= height THEN width ELSE height) * 8, 0, 0)

\* imageSize = Math.min(width, height) * 0.8, x = (width - imageSize) / 2,
\* y = (height - imageSize) / 2, drawImage(img, x, y, imageSize, imageSize).
splashLayout(width, height) ==
    LET imageSize == (IF width <= height THEN width ELSE height) * 8
    IN  Drawn(imageSize, (width * 10 - imageSize) \div 2,
              (height * 10 - imageSize) \div 2)

\* The calls on the context of a splash canvas: fillStyle =
\* options.backgroundColor, fillRect(0, 0, width, height), drawImage.
splashContextCalls(backgroundColor) ==
    <<ContextCall("fillRect", backgroundColor), ContextCall("drawImage", "none")>>

\* The tasks of a call: one per icon size, then one per splash size.
pwaTasks(opts) ==
    [i \in 1..Len(opts.iconSizes) |->
        [pc |-> "waiting", kind |-> "icon",
         width |-> opts.iconSizes[i], height |-> opts.iconSizes[i],
         resized |-> NoFile, canvas |-> NoCanvas, drawn |-> Drawn(0, 0, 0),
         blob |-> FALSE]]
    \o
    [i \in 1..Len(opts.splashSizes) |->
        [pc |-> "waiting", kind |-> "splash",
         width |-> opts.splashSizes[i].width,
         height |-> opts.splashSizes[i].height,
         resized |-> NoFile, canvas |-> NoCanvas, drawn |-> Drawn(0, 0, 0),
         blob |-> FALSE]]

\* The state before the call generatePWAIcons(file, options).
pwaIdle(variant, file, opts) ==
    [variant |-> variant, pc |-> "idle", file |-> file, options |-> opts,
     tasks |-> pwaTasks(opts), at |-> 0, settled |-> <<>>,
     iconCanvases |-> <<>>, splashCanvases |-> <<>>,
     zip |-> <<>>, previews |-> <<>>,
     result |-> NoFile, error |-> "none", console |-> <<>>]

\* The tasks of kind `kind` are started: their pc becomes `pc`.
pwaStart(tasks, kind, pc) ==
    [i \in 1..Len(tasks) |->
        IF tasks[i].kind = kind THEN [tasks[i] EXCEPT !.pc = pc] ELSE tasks[i]]

\* What a task awaits first.
firstAwait(kind) == IF kind = "icon" THEN "resize" ELSE "image"

\* zip.file('manifest.json', JSON.stringify(...)) and the call of
\* zip.generateAsync.
pwaWriteManifest(p) ==
    [p EXCEPT !.pc = "generate",
              !.zip = zipFile(@, [name |-> manifestName,
                                  data |-> manifest(p.options)])]

\* The sequential variant from item j on: the item is started, or the
\* loops are over and the manifest is written.
pwaStartItem(p, j) ==
    IF j > Len(p.tasks)
    THEN pwaWriteManifest([p EXCEPT !.at = j])
    ELSE [p EXCEPT !.pc = "items", !.at = j,
                   !.tasks[j].pc = firstAwait(p.tasks[j].kind)]

\* Whether task i takes steps in the state p.
pwaActive(p, i) ==
    \/ p.variant = "sequential" /\ p.pc = "items" /\ p.at = i
    \/ p.variant = "parallel" /\ p.pc \in {"icons", "iconBlobs"}
          /\ p.tasks[i].kind = "icon"
    \/ p.variant = "parallel" /\ p.pc \in {"splashes", "splashBlobs"}
          /\ p.tasks[i].kind = "splash"

\* A rejection leaves the function; part_000 logs it in its catch first.
pwaThrown(p, message) ==
    [p EXCEPT !.pc = "thrown", !.error = message,
              !.console = IF p.variant = "parallel"
                          THEN Append(@, "PWA assets generation error")
                          ELSE @]

\* The canvas of task i is made: the sequential variant encodes it at
\* once, the parallel one when every canvas is there.
pwaCanvasMade(p, i, canvas) ==
    [p EXCEPT !.tasks[i].canvas = canvas,
              !.settled = Append(@, i),
              !.tasks[i].pc = IF p.variant = "sequential"
                              THEN "blob" ELSE "ready"]

\* The tasks of one kind, and those of them that have settled.
ofKind(tasks, kind) ==
    SelectSeq(tasks, LAMBDA t : t.kind = kind)

settledOfKind(p, kind, offset) ==
    LET picked == SelectSeq(p.settled, LAMBDA i : p.tasks[i].kind = kind)
    IN  [k \in 1..Len(picked) |-> picked[k] - offset]

\* The canvas task i encodes: its own in App.tsx, the one at its place in
\* iconCanvases or splashCanvases in part_000.
pwaCanvasOf(p, i) ==
    LET icons == Len(p.options.iconSizes)
    IN  IF p.variant = "sequential" THEN p.tasks[i].canvas
        ELSE IF p.tasks[i].kind = "icon" THEN p.iconCanvases[i]
        ELSE p.splashCanvases[i - icons]

\* The entry of task i.
pwaEntry(p, i) ==
    LET t == p.tasks[i]
        canvas == pwaCanvasOf(p, i)
        name == IF t.kind = "icon" THEN iconName(t.width)
                ELSE splashName(t.width, t.height)
    IN  [name |-> name,
         data |-> File(name, <<"image", "png">>, "png",
                       canvas.width, canvas.height, 100,
                       IF t.kind = "icon" THEN "none"
                       ELSE filledBeforeDraw(
                                splashContextCalls(p.options.backgroundColor)))]

\* toBlob of task i has called back, with a blob or with null: the entry
\* is inserted if there is a blob (the sequential variant pushes the
\* descriptor too and goes on to the next item).
pwaEncoded(p, i, blob) ==
    LET q == [p EXCEPT
                !.tasks[i].pc = "done",
                !.tasks[i].blob = blob,
                !.zip = IF blob THEN zipFile(@, pwaEntry(p, i)) ELSE @,
                !.previews =
                    IF blob /\ p.variant = "sequential"
                    THEN previewsPush(@, [name |-> pwaEntry(p, i).name,
                                          type |-> p.tasks[i].kind])
                    ELSE @]
    IN  IF p.variant = "sequential" THEN pwaStartItem(q, i + 1) ELSE q

\* generatePWAIcons(file, options) up to its first await: the import of
\* jszip in App.tsx, the Promise.all over the icons in part_000.
PwaCall ==
    /\ pwa.pc = "idle"
    /\ pwa' = IF pwa.variant = "sequential"
              THEN [pwa EXCEPT !.pc = "import"]
              ELSE [pwa EXCEPT !.pc = "icons",
                               !.tasks = pwaStart(@, "icon", "resize")]
    /\ UNCHANGED <<opt, fav, uiVars>>

\* import('jszip') resolves: new JSZip(), then the first loop (App.tsx) or
\* the Promise.all over the icon encodes (part_000).
PwaImportResolve ==
    /\ pwa.pc = "import"
    /\ pwa' = IF pwa.variant = "sequential"
              THEN pwaStartItem(pwa, 1)
              ELSE [pwa EXCEPT !.pc = "iconBlobs",
                               !.tasks = pwaStart(@, "icon", "blob")]
    /\ UNCHANGED <<opt, fav, uiVars>>

PwaImportReject ==
    /\ pwa.pc = "import"
    /\ pwa' = pwaThrown(pwa, "import failed")
    /\ UNCHANGED <<opt, fav, uiVars>>

\* resizeImage(file, size, size) of task i resolves.
PwaResizeResolve(i) ==
    /\ pwaActive(pwa, i)
    /\ pwa.tasks[i].pc = "resize"
    /\ imageDecodes(pwa.file)
    /\ pwa.tasks[i].width > 0 /\ pwa.tasks[i].height > 0
    /\ \E enc \in toBlobEncodings(pwa.file.type) :
         pwa' = [pwa EXCEPT
            !.tasks[i].pc = "canvas",
            !.tasks[i].resized =
                resizeImage(pwa.file, pwa.tasks[i].width,
                            pwa.tasks[i].height, enc)]
    /\ UNCHANGED <<opt, fav, uiVars>>

PwaResizeReject(i) ==
    /\ pwaActive(pwa, i)
    /\ pwa.tasks[i].pc = "resize"
    /\ \E message \in stageErrors("resize", pwa.file) :
         pwa' = pwaThrown(pwa, message)
    /\ UNCHANGED <<opt, fav, uiVars>>

\* createCanvasFromFile(resized) of task i resolves.
PwaCanvasResolve(i) ==
    /\ pwaActive(pwa, i)
    /\ pwa.tasks[i].pc = "canvas"
    /\ imageDecodes(pwa.tasks[i].resized)
    /\ pwa' = pwaCanvasMade(pwa, i,
                  createCanvasFromFile(pwa.tasks[i].resized, i))
    /\ UNCHANGED <<opt, fav, uiVars>>

PwaCanvasReject(i) ==
    /\ pwaActive(pwa, i)
    /\ pwa.tasks[i].pc = "canvas"
    /\ \E message \in {"File reading error", "Image loading error",
                       "Could not create canvas context"} :
         pwa' = pwaThrown(pwa, message)
    /\ UNCHANGED <<opt, fav, uiVars>>

\* createImageFromFile(file) of splash task i resolves: the image is drawn
\* on the canvas of the splash size, filled with the background colour, in
\* the square splashLayout gives.
PwaImageResolve(i) ==
    /\ pwaActive(pwa, i)
    /\ pwa.tasks[i].pc = "image"
    /\ imageDecodes(pwa.file)
    /\ pwa' = [pwaCanvasMade(pwa, i,
                    Canvas(pwa.tasks[i].width, pwa.tasks[i].height, i))
               EXCEPT !.tasks[i].drawn =
                         splashLayout(pwa.tasks[i].width, pwa.tasks[i].height)]
    /\ UNCHANGED <<opt, fav, uiVars>>

\* getContext gives null or createImageFromFile rejects.
PwaImageReject(i) ==
    /\ pwaActive(pwa, i)
    /\ pwa.tasks[i].pc = "image"
    /\ \E message \in (IF imageDecodes(pwa.file)
                        THEN {"File reading error",
                              "Could not create canvas context"}
                        ELSE {"Image loading error"}) :
         pwa' = pwaThrown(pwa, message)
    /\ UNCHANGED <<opt, fav, uiVars>>

\* toBlob of task i hands over a blob, which a canvas without pixels
\* never does.
PwaBlobResolve(i) ==
    /\ pwaActive(pwa, i)
    /\ pwa.tasks[i].pc = "blob"
    /\ pwaCanvasOf(pwa, i).width > 0 /\ pwaCanvasOf(pwa, i).height > 0
    /\ pwa' = pwaEncoded(pwa, i, TRUE)
    /\ UNCHANGED <<opt, fav, uiVars>>

\* toBlob of task i hands over null: `if (blob)` passes the item over.
PwaBlobNull(i) ==
    /\ pwaActive(pwa, i)
    /\ pwa.tasks[i].pc = "blob"
    /\ pwa' = pwaEncoded(pwa, i, FALSE)
    /\ UNCHANGED <<opt, fav, uiVars>>

\* A Promise.all of part_000 resolves, every one of its tasks having
\* resolved, and the function runs on to its next await.
PwaAllResolve ==
    /\ pwa.variant = "parallel"
    /\ pwa.pc \in {"icons", "splashes", "iconBlobs", "splashBlobs"}
    /\ LET kind == IF pwa.pc \in {"icons", "iconBlobs"}
                   THEN "icon" ELSE "splash"
           end == IF pwa.pc \in {"icons", "splashes"} THEN "ready" ELSE "done"
       IN  \A i \in 1..Len(pwa.tasks) :
              pwa.tasks[i].kind = kind => pwa.tasks[i].pc = end
    /\ pwa' = CASE pwa.pc = "icons" ->
                    [pwa EXCEPT !.pc = "splashes",
                                !.iconCanvases =
                                    promiseAll(ofKind(pwa.tasks, "icon"),
                                               settledOfKind(pwa, "icon", 0)),
                                !.settled = <<>>,
                                !.tasks = pwaStart(@, "splash", "image")]
                [] pwa.pc = "splashes" ->
                    [pwa EXCEPT !.pc = "import",
                                !.settled = <<>>,
                                !.splashCanvases =
                                    promiseAll(ofKind(pwa.tasks, "splash"),
                                               settledOfKind(pwa, "splash",
                                                   Len(pwa.options.iconSizes)))]
                [] pwa.pc = "iconBlobs" ->
                    [pwa EXCEPT !.pc = "splashBlobs",
                                !.tasks = pwaStart(@, "splash", "blob")]
                [] pwa.pc = "splashBlobs" -> pwaWriteManifest(pwa)
    /\ UNCHANGED <<opt, fav, uiVars>>

\* zip.generateAsync resolves: the archive is returned as pwa-assets.zip.
PwaGenerateResolve ==
    /\ pwa.pc = "generate"
    /\ pwa' = [pwa EXCEPT
            !.pc = "returned",
            !.result = File(<<<<"pwa-assets">>, <<"zip">>>>,
                            <<"application", "zip">>, "zip", 0, 0, 0, "none")]
    /\ UNCHANGED <<opt, fav, uiVars>>

PwaGenerateReject ==
    /\ pwa.pc = "generate"
    /\ pwa' = pwaThrown(pwa, "archive failed")
    /\ UNCHANGED <<opt, fav, uiVars>>

(***************************************************************************)
(* The pipelines as processFiles sees them: a call resolves with a result  *)
(* or rejects.  An outcome is [ok, file, previews]; which of the possible  *)
(* outcomes happens is up to the decoders and encoders.                    *)
(***************************************************************************)

Rejected == [ok |-> FALSE, file |-> NoFile, previews |-> <<>>]

Resolved(file, previews) == [ok |-> TRUE, file |-> file, previews |-> previews]

\* optimizeImage from position k of stageOrder on, processedFile being the
\* blob so far.
RECURSIVE optimizeImageFrom(_, _, _, _)
optimizeImageFrom(file, processedFile, opts, k) ==
    IF k > Len(stageOrder)
    THEN {Resolved(processedFile, <<>>)}
    ELSE IF ~stageGate(stageOrder[k], file, opts)
    THEN optimizeImageFrom(file, processedFile, opts, k + 1)
    ELSE {Rejected} \cup
         (IF stageDecodes(stageOrder[k], processedFile)
          THEN UNION {optimizeImageFrom(file, out, opts, k + 1) :
                        out \in stageOutputs(stageOrder[k], processedFile, opts)}
          ELSE {})

optimizeImageOutcomes(file, opts) == optimizeImageFrom(file, file, opts, 1)

\* generateFavicon(file, fopts): with no size the function throws a
\* TypeError; any resizeImage, createCanvasFromFile or toBlob may fail.
generateFaviconOutcomes(file, fopts) ==
    LET sizes == fopts.sizes
        canvases == [i \in 1..Len(sizes) |->
                        createCanvasFromFile(
                            resizeImage(file, sizes[i], sizes[i], "png"), i)]
        picked == IF fopts.outputFormat = "ico"
                  THEN reduceLargest(canvases[1], Tail(canvases))
                  ELSE canvases[pngCanvasIndex(sizes)]
    IN  {Rejected} \cup
        (IF sizes # <<>> /\ imageDecodes(file)
         THEN {Resolved(faviconFile(fopts.outputFormat, picked,
                                    mathMax(sizes)), <<>>)}
         ELSE {})

\* The preview descriptors of generatePWAIcons, without their URLs: the
\* icons, then the splash screens.
pwaPreviews(popts) ==
    [i \in 1..Len(popts.iconSizes) |->
        [name |-> <<<<"icon-">> \o digits(popts.iconSizes[i]) \o <<"x">>
                      \o digits(popts.iconSizes[i]), <<"png">>>>,
         type |-> "icon"]]
    \o
    [i \in 1..Len(popts.splashSizes) |->
        [name |-> <<<<"splash-">> \o digits(popts.splashSizes[i].width)
                      \o <<"x">> \o digits(popts.splashSizes[i].height),
                    <<"png">>>>,
         type |-> "splash"]]

\* generatePWAIcons(file, popts), every toBlob handing over a blob: the
\* archive and the previews, or a rejection (of the import, of a decode or
\* of the archive).
generatePWAIconsOutcomes(file, popts) ==
    {Rejected} \cup
    (IF pwaPreviews(popts) = <<>> \/ imageDecodes(file)
     THEN {Resolved(File(<<<<"pwa-assets">>, <<"zip">>>>,
                         <<"application", "zip">>, "zip", 0, 0, 0, "none"),
                    pwaPreviews(popts))}
     ELSE {})

(***************************************************************************)
(* The ImageOptimizer component (App.tsx 26-212).  A handler, the render   *)
(* that follows it and the effects of that render are one step.  st is the *)
(* part of the state processFiles works on: [files, isProcessing, runs,    *)
(* urls, mounted].  A run is one call of processFiles: the argument, the   *)
(* configuration its closure holds, newFiles, the position i of the file   *)
(* whose pipeline it awaits, and what became of each file so far.          *)
(***************************************************************************)

\* The test of the if statement that follows the skip test (App.tsx 94).
processFilesDetectsHeic(file) ==
    file.type = <<"image", "heic">> \/ endsWithHeic(file.name)

\* rendersHeicPreview with the name compared as it is written.
rendersHeicPreviewCaseSensitive(entry) ==
    /\ entry.previewUrl # 0
    /\ \/ entry.original.type = <<"image", "heic">>
       \/ /\ Len(entry.original.name) >= 2
          /\ entry.original.name[Len(entry.original.name)] = <<"heic">>

\* Whether the list shows the original through HeicPreview (App.tsx 569).
rendersHeicPreview(entry) ==
    /\ entry.previewUrl # 0
    /\ \/ entry.original.type = <<"image", "heic">>
       \/ endsWithHeic(entry.original.name)

\* The negation of the test that skips a file (App.tsx 93).
eligible(file) == startsWithImage(file.type) \/ endsWithHeic(file.name)

\* The URLs an OptimizedFile holds.
urlsOf(entry) ==
    {entry.previewUrl}
    \cup (IF entry.optimizedPreviewUrl # 0
          THEN {entry.optimizedPreviewUrl} ELSE {})
    \cup {entry.extraPreviews[k].url : k \in 1..Len(entry.extraPreviews)}

\* revokeObjectURLs(filesToClean) on the URL store u.
revokeObjectURLs(u, filesToClean) ==
    [i \in 1..Len(u) |->
        IF \E k \in 1..Len(filesToClean) : i \in urlsOf(filesToClean[k])
        THEN "revoked" ELSE u[i]]

\* The call a run awaits for the file at position i.
pipelineOutcomes(run) ==
    LET file == run.input[run.i]
    IN  CASE run.activeTab = "favicon" ->
                generateFaviconOutcomes(file, run.faviconOptions)
          [] run.activeTab = "pwa" ->
                generatePWAIconsOutcomes(file, run.pwaOptions)
          [] OTHER -> optimizeImageOutcomes(file, run.options)

\* The for loop of processFiles from position j of the input on, up to
\* the next await or through setFiles(newFiles) and setIsProcessing(false);
\* the render after setFiles runs the cleanup of the effect on [files],
\* which revokes the URLs of the list that was displayed.  On a component
\* that is unmounted the two setters do nothing.
RECURSIVE processFilesFrom(_, _, _)
processFilesFrom(st, r, j) ==
    LET run == st.runs[r]
    IN  IF j > Len(run.input)
        THEN IF st.mounted
             THEN [st EXCEPT !.files = run.newFiles,
                             !.isProcessing = FALSE,
                             !.urls = revokeObjectURLs(st.urls, st.files),
                             !.runs[r].pc = "done",
                             !.runs[r].i = j]
             ELSE [st EXCEPT !.runs[r].pc = "done", !.runs[r].i = j]
        ELSE IF ~eligible(run.input[j])
        THEN processFilesFrom(
                [st EXCEPT !.runs[r].outcomes = Append(@, "skipped")], r, j + 1)
        ELSE IF run.activeTab = "optimize"
                /\ run.options.format \notin RecognizedFormats
        THEN processFilesFrom(
                [st EXCEPT !.runs[r].outcomes = Append(@, "failed")], r, j + 1)
        ELSE [st EXCEPT !.runs[r].pc = "await", !.runs[r].i = j]

\* processFiles(input) called from a render whose state is the
\* configuration given: setIsProcessing(true), revokeObjectURLs(files),
\* then the loop.
processFiles(st, input, tab, opts, fopts, popts) ==
    LET run == [input |-> input, activeTab |-> tab, options |-> opts,
                faviconOptions |-> fopts, pwaOptions |-> popts,
                newFiles |-> <<>>, outcomes |-> <<>>, i |-> 0, pc |-> "call"]
        st1 == [st EXCEPT !.isProcessing = TRUE,
                          !.urls = revokeObjectURLs(st.urls, st.files),
                          !.runs = Append(@, run)]
    IN  processFilesFrom(st1, Len(st1.runs), 1)

\* A loop whose PWA branch returns where the code says continue: the
\* entry is pushed and the run ends without storing its list.
pipelineResolvedReturns(st, r, out) ==
    LET run == st.runs[r]
        entry == [original |-> run.input[run.i], optimized |-> out.file,
                  previewUrl |-> 0, optimizedPreviewUrl |-> 0,
                  extraPreviews |-> <<>>]
    IN  [st EXCEPT !.runs[r].newFiles = Append(@, entry),
                   !.runs[r].outcomes = Append(@, "ok"),
                   !.runs[r].pc = "returned"]

\* A loop without its try/catch: the rejection leaves processFiles.
pipelineRejectedThrows(st, r, leaked) ==
    [st EXCEPT !.urls = @ \o [x \in 1..leaked |-> "live"],
               !.runs[r].outcomes = Append(@, "failed"),
               !.runs[r].pc = "thrown"]

\* The awaited pipeline of run r has resolved with out: the URLs are
\* created (those of the previews by generatePWAIcons itself), the entry
\* is pushed and the loop goes on.
pipelineResolved(st, r, out) ==
    LET run == st.runs[r]
        n == Len(st.urls)
        k == Len(out.previews)
        entry ==
            IF run.activeTab = "pwa"
            THEN [original |-> run.input[run.i], optimized |-> out.file,
                  previewUrl |-> n + k + 1, optimizedPreviewUrl |-> 0,
                  extraPreviews |->
                     [p \in 1..k |-> [name |-> out.previews[p].name,
                                      url |-> n + p,
                                      type |-> out.previews[p].type]]]
            ELSE [original |-> run.input[run.i], optimized |-> out.file,
                  previewUrl |-> n + 1, optimizedPreviewUrl |-> n + 2,
                  extraPreviews |-> <<>>]
        created == IF run.activeTab = "pwa" THEN k + 1 ELSE 2
    IN  processFilesFrom(
            [st EXCEPT !.urls = @ \o [x \in 1..created |-> "live"],
                       !.runs[r].newFiles = Append(@, entry),
                       !.runs[r].outcomes = Append(@, "ok")],
            r, run.i + 1)

\* The awaited pipeline of run r has rejected, generatePWAIcons after it
\* had created the URLs of `leaked` previews: the catch logs the error and
\* the loop goes on.
pipelineRejected(st, r, leaked) ==
    processFilesFrom(
        [st EXCEPT !.urls = @ \o [x \in 1..leaked |-> "live"],
                   !.runs[r].outcomes = Append(@, "failed")],
        r, st.runs[r].i + 1)

\* How many preview URLs generatePWAIcons may have created when it rejects.
leakedPreviews(run) ==
    IF run.activeTab = "pwa" /\ imageDecodes(run.input[run.i])
    THEN 0..Len(pwaPreviews(run.pwaOptions))
    ELSE {0}

\* The state processFiles works on, and its assignment.
current ==
    [files |-> files, isProcessing |-> isProcessing, runs |-> runs,
     urls |-> urls, mounted |-> mounted]

becomes(st) ==
    /\ files' = st.files
    /\ isProcessing' = st.isProcessing
    /\ runs' = st.runs
    /\ urls' = st.urls

\* The most calls of processFiles in one behaviour.
MaxRuns == 2

\* The most user events in one behaviour.
MaxEvents == 5

PipelineResolve(r) ==
    /\ runs[r].pc = "await"
    /\ \E out \in pipelineOutcomes(runs[r]) :
         /\ out.ok
         /\ becomes(pipelineResolved(current, r, out))
    /\ UNCHANGED <<opt, fav, pwa, activeTab, inputFiles, options, faviconOptions,
                   pwaOptions, userEvents, mounted, links, removed>>

PipelineReject(r) ==
    /\ runs[r].pc = "await"
    /\ Rejected \in pipelineOutcomes(runs[r])
    /\ \E leaked \in leakedPreviews(runs[r]) :
         becomes(pipelineRejected(current, r, leaked))
    /\ UNCHANGED <<opt, fav, pwa, activeTab, inputFiles, options, faviconOptions,
                   pwaOptions, userEvents, mounted, links, removed>>

(***************************************************************************)
(* The user's events.  The options panel shows the controls of the active  *)
(* tab only; the file button is disabled while isProcessing; the file      *)
(* input takes several files on the optimize tab only.                     *)
(***************************************************************************)

\* The effect on [options, faviconOptions, pwaOptions, activeTab], run by
\* the render that follows a change of one of them (App.tsx 173-178).
rerunEffect(tab, opts, fopts, popts) ==
    /\ mounted
    /\ userEvents < MaxEvents
    /\ userEvents' = userEvents + 1
    /\ activeTab' = tab
    /\ options' = opts
    /\ faviconOptions' = fopts
    /\ pwaOptions' = popts
    /\ IF Len(inputFiles) > 0
       THEN /\ Len(runs) < MaxRuns
            /\ becomes(processFiles(current, inputFiles, tab, opts, fopts, popts))
       ELSE UNCHANGED <<files, isProcessing, runs, urls>>
    /\ UNCHANGED <<opt, fav, pwa, inputFiles, mounted, links, removed>>

\* handleFileChange with the files selected (App.tsx 165-171).
HandleFileChange(selectedFiles) ==
    /\ mounted
    /\ ~isProcessing
    /\ Len(selectedFiles) > 0
    /\ Len(selectedFiles) = 1 \/ activeTab = "optimize"
    /\ userEvents < MaxEvents
    /\ Len(runs) < MaxRuns
    /\ userEvents' = userEvents + 1
    /\ inputFiles' = selectedFiles
    /\ removed' = {}
    /\ becomes(processFiles(current, selectedFiles, activeTab, options,
                            faviconOptions, pwaOptions))
    /\ UNCHANGED <<opt, fav, pwa, activeTab, options, faviconOptions, pwaOptions,
                   mounted, links>>

\* A click on a tab (App.tsx 232-242).
SetActiveTab(tab) ==
    /\ tab # activeTab
    /\ rerunEffect(tab, options, faviconOptions, pwaOptions)

\* The output format select of the optimize tab (App.tsx 265-281).
SetFormat(format) ==
    /\ activeTab = "optimize"
    /\ format # options.format
    /\ rerunEffect(activeTab, [options EXCEPT !.format = format],
                   faviconOptions, pwaOptions)

\* The quality slider (App.tsx 288-300).
SetQuality(quality) ==
    /\ activeTab = "optimize"
    /\ quality # options.quality
    /\ rerunEffect(activeTab, [options EXCEPT !.quality = quality],
                   faviconOptions, pwaOptions)

\* The max width input (App.tsx 307-319).
SetMaxWidth(width) ==
    /\ activeTab = "optimize"
    /\ width # options.maxWidth
    /\ rerunEffect(activeTab, [options EXCEPT !.maxWidth = width],
                   faviconOptions, pwaOptions)

\* The max height input (App.tsx 326-338).
SetMaxHeight(height) ==
    /\ activeTab = "optimize"
    /\ height # options.maxHeight
    /\ rerunEffect(activeTab, [options EXCEPT !.maxHeight = height],
                   faviconOptions, pwaOptions)

\* prev.includes(size) ? prev.filter((s) => s !== size) : [...prev, size]
toggled(sizes, size) ==
    IF \E i \in 1..Len(sizes) : sizes[i] = size
    THEN SelectSeq(sizes, LAMBDA x : x # size)
    ELSE Append(sizes, size)

\* The sizes the favicon panel has a checkbox for (App.tsx 356).
FaviconCheckboxes == {16, 32, 48, 64, 128}

\* A click on a size checkbox of the favicon tab (App.tsx 361-372).
ToggleFaviconSize(size) ==
    /\ activeTab = "favicon"
    /\ rerunEffect(activeTab, options,
                   [faviconOptions EXCEPT !.sizes = toggled(@, size)],
                   pwaOptions)

\* The output format select of the favicon tab (App.tsx 385-397).
SetFaviconOutputFormat(outputFormat) ==
    /\ activeTab = "favicon"
    /\ outputFormat # faviconOptions.outputFormat
    /\ rerunEffect(activeTab, options,
                   [faviconOptions EXCEPT !.outputFormat = outputFormat],
                   pwaOptions)

\* The sizes the PWA panel has a checkbox for (App.tsx 414).
PwaCheckboxes == {192, 256, 512}

\* A click on an icon size checkbox of the PWA tab (App.tsx 419-430).
TogglePwaIconSize(size) ==
    /\ activeTab = "pwa"
    /\ rerunEffect(activeTab, options, faviconOptions,
                   [pwaOptions EXCEPT !.iconSizes = toggled(@, size)])

\* The splash sizes the select of the PWA tab cuts its list from
\* (App.tsx 448-454).
defaultSizes ==
    <<[width |-> 640, height |-> 1136], [width |-> 750, height |-> 1334],
      [width |-> 828, height |-> 1792], [width |-> 1242, height |-> 2208],
      [width |-> 1125, height |-> 2436]>>

\* The splash screen select of the PWA tab (App.tsx 444-464).
SetSplashCount(count) ==
    /\ activeTab = "pwa"
    /\ count # Len(pwaOptions.splashSizes)
    /\ rerunEffect(activeTab, options, faviconOptions,
                   [pwaOptions EXCEPT !.splashSizes = SubSeq(defaultSizes, 1, count)])

\* The background colour input of the PWA tab (App.tsx 472-482).
SetBackgroundColor(color) ==
    /\ activeTab = "pwa"
    /\ color # pwaOptions.backgroundColor
    /\ rerunEffect(activeTab, options, faviconOptions,
                   [pwaOptions EXCEPT !.backgroundColor = color])

(***************************************************************************)
(* The results list, the downloads and the end of the component.  links    *)
(* holds, for each call of URL.createObjectURL outside processFiles and    *)
(* generatePWAIcons, who made it (by), the preview URL of the entry it     *)
(* stands in for (of, 0 for a download) and its state: "pending" while     *)
(* zip.generateAsync is awaited, "live" once the URL is made, "failed" if  *)
(* it never is.  No statement of the program revokes such a URL.  zip is   *)
(* the archive handleDownloadAll has filled, empty for the other links.    *)
(***************************************************************************)

Link(by, of, state) == [by |-> by, of |-> of, state |-> state, zip |-> <<>>]

\* The most such URLs in one behaviour.
MaxLinks == 2

\* newFiles.splice(index, 1), index counted from 1.
splice(list, index) ==
    [k \in 1..(Len(list) - 1) |-> IF k < index THEN list[k] ELSE list[k + 1]]

\* handleRemove(index) (App.tsx 196-208): the URLs of the entry removed are
\* revoked and the shorter list is stored; the render that follows runs
\* the cleanup of the effect on [files] with the list displayed before.
HandleRemove(index) ==
    /\ mounted
    /\ index \in 1..Len(files)
    /\ userEvents < MaxEvents
    /\ userEvents' = userEvents + 1
    /\ files' = splice(files, index)
    /\ urls' = revokeObjectURLs(revokeObjectURLs(urls, <<files[index]>>), files)
    /\ removed' = removed \cup {[file |-> files[index].original,
                                  runs |-> Len(runs)]}
    /\ UNCHANGED <<opt, fav, pwa, isProcessing, activeTab, inputFiles, options,
                   faviconOptions, pwaOptions, runs, mounted, links>>

\* handleDownload(file) (App.tsx 187-194): link.href =
\* URL.createObjectURL(file.optimized), click, removeChild.
HandleDownload(index) ==
    /\ mounted
    /\ Len(links) < MaxLinks
    /\ index \in 1..Len(files)
    /\ userEvents < MaxEvents
    /\ userEvents' = userEvents + 1
    /\ links' = Append(links, Link("handleDownload", 0, "live"))
    /\ UNCHANGED <<opt, fav, pwa, files, isProcessing, activeTab, inputFiles,
                   options, faviconOptions, pwaOptions, runs, urls, mounted,
                   removed>>

\* files.forEach(file => zip.file(file.optimized.name, file.optimized)) on
\* a new archive, for the first n results (App.tsx 30-34).
RECURSIVE downloadAllZip(_, _)
downloadAllZip(list, n) ==
    IF n = 0 THEN <<>>
    ELSE zipFile(downloadAllZip(list, n - 1),
                 [name |-> list[n].optimized.name, data |-> list[n].optimized])

\* handleDownloadAll (App.tsx 29-41) up to its await of zip.generateAsync;
\* the button is rendered for a list that is not empty (654).
HandleDownloadAll ==
    /\ mounted
    /\ Len(links) < MaxLinks
    /\ Len(files) > 0
    /\ userEvents < MaxEvents
    /\ userEvents' = userEvents + 1
    /\ links' = Append(links, [Link("handleDownloadAll", 0, "pending")
                                  EXCEPT !.zip = downloadAllZip(files, Len(files))])
    /\ UNCHANGED <<opt, fav, pwa, files, isProcessing, activeTab, inputFiles,
                   options, faviconOptions, pwaOptions, runs, urls, mounted,
                   removed>>

\* zip.generateAsync resolves: link.href = URL.createObjectURL(blob).
DownloadAllResolve(k) ==
    /\ links[k].state = "pending"
    /\ links' = [links EXCEPT ![k].state = "live"]
    /\ UNCHANGED <<opt, fav, pwa, files, isProcessing, activeTab, inputFiles,
                   options, faviconOptions, pwaOptions, runs, urls, userEvents,
                   mounted, removed>>

\* zip.generateAsync rejects: no URL is made.
DownloadAllReject(k) ==
    /\ links[k].state = "pending"
    /\ links' = [links EXCEPT ![k].state = "failed"]
    /\ UNCHANGED <<opt, fav, pwa, files, isProcessing, activeTab, inputFiles,
                   options, faviconOptions, pwaOptions, runs, urls, userEvents,
                   mounted, removed>>

\* heic2any of the HeicPreview shown for entry index resolves while the
\* preview is mounted: setSrc(URL.createObjectURL(blob)) (App.tsx 676-677).
HeicPreviewResolve(index) ==
    /\ mounted
    /\ Len(links) < MaxLinks
    /\ index \in 1..Len(files)
    /\ rendersHeicPreview(files[index])
    /\ heicDecodes(files[index].original)
    /\ \A k \in 1..Len(links) :
          ~(links[k].by = "HeicPreview" /\ links[k].of = files[index].previewUrl)
    /\ links' = Append(links, Link("HeicPreview", files[index].previewUrl, "live"))
    /\ UNCHANGED <<opt, fav, pwa, files, isProcessing, activeTab, inputFiles,
                   options, faviconOptions, pwaOptions, runs, urls, userEvents,
                   mounted, removed>>

\* The component is unmounted: the cleanup of the effect on [files] revokes
\* the URLs of the list displayed (App.tsx 180-185).
Unmount ==
    /\ mounted
    /\ mounted' = FALSE
    /\ urls' = revokeObjectURLs(urls, files)
    /\ UNCHANGED <<opt, fav, pwa, files, isProcessing, activeTab, inputFiles,
                   options, faviconOptions, pwaOptions, runs, userEvents, links,
                   removed>>

(***************************************************************************)
(* Inputs                                                                  *)
(***************************************************************************)

\* Files a user may hand over: HEIC by type and extension, by extension
\* alone (upper case, no type), by type alone; a PNG with two dots in its
\* name; a WebP whose name ends in a dot; a file tagged JPEG whose payload
\* is no image; a JPEG renamed to .heic.
PhotoHeic == File(<<<<"photo">>, <<"heic">>>>, <<"image", "heic">>, "heic", 5, 4, 0, "none")
ImgHEIC == File(<<<<"IMG">>, <<"HEIC">>>>, <<>>, "heic", 5, 4, 0, "none")
ScanHeic == File(<<<<"scan">>>>, <<"image", "heic">>, "heic", 5, 4, 0, "none")
LogoPng == File(<<<<"a">>, <<"b">>, <<"png">>>>, <<"image", "png">>, "png", 5, 4, 0, "none")
ShotWebp == File(<<<<"shot">>, <<>>>>, <<"image", "webp">>, "webp", 5, 4, 0, "none")
BrokenJpg == File(<<<<"pic">>, <<"jpg">>>>, <<"image", "jpeg">>, "garbage", 5, 4, 0, "none")

RenamedJpg == File(<<<<"fake">>, <<"Heic">>>>, <<"image", "heic">>, "jpeg", 5, 4, 0, "none")

\* A PNG whose name has heic in it, but not as its extension.
HeicPng == File(<<<<"heic">>, <<"png">>>>, <<"image", "png">>, "png", 5, 4, 0, "none")

OptFiles ==
    {PhotoHeic, ImgHEIC, ScanHeic, LogoPng, ShotWebp, BrokenJpg, RenamedJpg,
     HeicPng}

\* The format tags optimizeImage is tried with: the recognized ones and
\* one outside the enumeration.
OptFormats == RecognizedFormats \cup {"bmp"}

OptConfigs ==
    [format : OptFormats, quality : {60, 80},
     maxWidth : {0, 2, 7}, maxHeight : {0, 3}]

\* The longest list of favicon sizes tried.
MaxSizes == 3

\* The state of the component after construction (App.tsx 43-71).
initialOptions ==
    [format |-> "webp", quality |-> 80, maxWidth |-> 0, maxHeight |-> 0]

initialFaviconOptions == [sizes |-> <<16, 32, 48>>, outputFormat |-> "ico"]

initialPwaOptions ==
    [iconSizes |-> <<192, 512>>,
     splashSizes |-> <<[width |-> 640, height |-> 1136],
                       [width |-> 750, height |-> 1334],
                       [width |-> 828, height |-> 1792]>>,
     backgroundColor |-> "#ffffff"]

SeqsUpTo(S, n) == UNION {[1..k -> S] : k \in 0..n}

\* The lists of sizes generateFavicon is tried with: those of the initial
\* selection, in any order and number.
FavConfigs ==
    [sizes : SeqsUpTo({initialFaviconOptions.sizes[i] : i \in 1..3}, MaxSizes),
     outputFormat : {"ico", "png"}]

\* A file that is no image.
NotesTxt == File(<<<<"notes">>, <<"txt">>>>, <<"text", "plain">>, "text", 0, 0, 0, "none")

\* The longest list of files handed to processFiles.
MaxFiles == 3

\* The lists of files processFiles is tried with.
Batches == SeqsUpTo({LogoPng, ImgHEIC, NotesTxt}, MaxFiles) \ {<<>>}

\* The most files selected in the file dialog at once.
MaxSelected == 2

\* The selections of the file dialog: lists of different files.
Selections ==
    {b \in Batches : /\ Len(b) <= MaxSelected
                     /\ \A i, j \in 1..Len(b) : i # j => b[i] # b[j]}

Tabs == {"optimize", "favicon", "pwa"}

\* The configurations processFiles is tried with: on each tab, the
\* options of that tab vary.
BatchConfigs ==
    [activeTab : {"optimize"},
     options : [format : RecognizedFormats, quality : {80},
                maxWidth : {0, 2}, maxHeight : {0, 3}],
     faviconOptions : {initialFaviconOptions},
     pwaOptions : {initialPwaOptions}]
    \cup
    [activeTab : {"favicon"},
     options : {initialOptions},
     faviconOptions : [sizes : {<<16, 32, 48>>, <<48, 16>>, <<>>},
                       outputFormat : {"ico", "png"}],
     pwaOptions : {initialPwaOptions}]
    \cup
    [activeTab : {"pwa"},
     options : {initialOptions},
     faviconOptions : {initialFaviconOptions},
     pwaOptions : {initialPwaOptions,
                   [initialPwaOptions EXCEPT !.iconSizes = <<>>,
                                             !.splashSizes = <<>>]}]

(***************************************************************************)
(* Specifications                                                          *)
(***************************************************************************)

\* The component after construction.
InitUI ==
    /\ files = <<>>
    /\ isProcessing = FALSE
    /\ activeTab = "optimize"
    /\ inputFiles = <<>>
    /\ options = initialOptions
    /\ faviconOptions = initialFaviconOptions
    /\ pwaOptions = initialPwaOptions
    /\ runs = <<>>
    /\ urls = <<>>
    /\ userEvents = 0
    /\ mounted = TRUE
    /\ links = <<>>
    /\ removed = {}

\* No call of optimizeImage or generateFavicon is followed step by step.
noOpt == optIdle(NoFile, initialOptions)

noFav == [favIdle(NoFile, initialFaviconOptions) EXCEPT !.pc = "none"]

noPwa == [pwaIdle("sequential", NoFile, initialPwaOptions) EXCEPT !.pc = "none"]

\* One call of optimizeImage, for every file and configuration.
InitOpt ==
    /\ opt \in {optIdle(f, c) : f \in OptFiles, c \in OptConfigs}
    /\ fav = noFav
    /\ pwa = noPwa
    /\ InitUI

NextOpt == OptCall \/ OptResolve \/ OptReject

SpecOpt == InitOpt /\ [][NextOpt]_vars

\* One call of optimizeImage or of a conversion function by itself.
NextConvert == OptCall \/ ConvertCall \/ OptResolve \/ OptReject

SpecConvert == InitOpt /\ [][NextConvert]_vars

\* One call of generateFavicon, for every list of sizes and output format.
InitFav ==
    /\ fav \in {favIdle(LogoPng, c) : c \in FavConfigs}
    /\ opt = noOpt
    /\ pwa = noPwa
    /\ InitUI

NextFav ==
    \/ FavCall
    \/ \E i \in 1..Len(fav.tasks) :
         \/ FavResizeResolve(i)
         \/ FavResizeReject(i)
         \/ FavCanvasResolve(i)
         \/ FavCanvasReject(i)
    \/ FavAll
    \/ FavEncodeResolve
    \/ FavEncodeNull

SpecFav == InitFav /\ [][NextFav]_vars

\* The most icon sizes and the most splash sizes of a call of
\* generatePWAIcons.
MaxIcons == 2

MaxSplashes == 2

\* The options generatePWAIcons is tried with; a splash size may have no
\* pixels.
PwaConfigs ==
    [iconSizes : SeqsUpTo({192, 512}, MaxIcons),
     splashSizes : SeqsUpTo({[width |-> 640, height |-> 1136],
                             [width |-> 750, height |-> 1334],
                             [width |-> 0, height |-> 1136]}, MaxSplashes),
     backgroundColor : {"#ffffff", "#000000"}]

\* One call of generatePWAIcons, in either variant, for a decodable and
\* an undecodable file and every configuration.
InitPwa ==
    /\ pwa \in {pwaIdle(v, f, c) : v \in {"sequential", "parallel"},
                                  f \in {LogoPng, BrokenJpg}, c \in PwaConfigs}
    /\ opt = noOpt
    /\ fav = noFav
    /\ InitUI

NextPwa ==
    \/ PwaCall
    \/ PwaImportResolve
    \/ PwaImportReject
    \/ \E i \in 1..Len(pwa.tasks) :
          \/ PwaResizeResolve(i)
          \/ PwaResizeReject(i)
          \/ PwaCanvasResolve(i)
          \/ PwaCanvasReject(i)
          \/ PwaImageResolve(i)
          \/ PwaImageReject(i)
          \/ PwaBlobResolve(i)
          \/ PwaBlobNull(i)
    \/ PwaAllResolve
    \/ PwaGenerateResolve
    \/ PwaGenerateReject

SpecPwa == InitPwa /\ [][NextPwa]_vars

\* The two functions that fan out with Promise.all: one call of
\* generateFavicon or one call of generatePWAIcons of part_000.
InitFanOut == InitFav \/ (InitPwa /\ pwa.variant = "parallel")

NextFanOut == NextFav \/ NextPwa

SpecFanOut == InitFanOut /\ [][NextFanOut]_vars

\* The awaited pipeline of some run settles.
Settle ==
    \E r \in 1..Len(runs) : PipelineResolve(r) \/ PipelineReject(r)

\* processFiles(input) is called by the component.
ProcessFilesCall(input) ==
    /\ runs = <<>>
    /\ inputFiles' = input
    /\ becomes(processFiles(current, input, activeTab, options,
                            faviconOptions, pwaOptions))
    /\ UNCHANGED <<opt, fav, pwa, activeTab, options, faviconOptions, pwaOptions,
                   userEvents, mounted, links, removed>>

\* One call of processFiles, for every list of files and configuration.
InitBatch ==
    /\ opt = noOpt
    /\ fav = noFav
    /\ pwa = noPwa
    /\ files = <<>>
    /\ isProcessing = FALSE
    /\ inputFiles = <<>>
    /\ runs = <<>>
    /\ urls = <<>>
    /\ userEvents = 0
    /\ mounted = TRUE
    /\ links = <<>>
    /\ removed = {}
    /\ \E c \in BatchConfigs :
         /\ activeTab = c.activeTab
         /\ options = c.options
         /\ faviconOptions = c.faviconOptions
         /\ pwaOptions = c.pwaOptions

NextBatch ==
    \/ \E input \in Batches : ProcessFilesCall(input)
    \/ Settle

SpecBatch == InitBatch /\ [][NextBatch]_vars

\* Every decode, encode, conversion and archive step settles.
FairBatch == SpecBatch /\ WF_vars(Settle)

\* A JPEG of the same base name as LogoPng.
LogoJpg == File(<<<<"a">>, <<"b">>, <<"jpg">>>>, <<"image", "jpeg">>, "jpeg", 5, 4, 0, "none")

\* Lists of files among which two have the same base name.
SameNameBatches == SeqsUpTo({LogoPng, LogoJpg, NotesTxt}, MaxSelected) \ {<<>>}

\* One call of processFiles and the downloads of its results.
NextDownloadAll ==
    \/ \E input \in SameNameBatches : ProcessFilesCall(input)
    \/ Settle
    \/ HandleDownloadAll
    \/ \E k \in 1..Len(links) : DownloadAllResolve(k) \/ DownloadAllReject(k)

SpecDownloadAll == InitBatch /\ [][NextDownloadAll]_vars

\* The component from its construction on, under the user's events.
Init ==
    /\ opt = noOpt
    /\ fav = noFav
    /\ pwa = noPwa
    /\ InitUI

Next ==
    \/ \E selectedFiles \in Selections : HandleFileChange(selectedFiles)
    \/ \E tab \in Tabs : SetActiveTab(tab)
    \/ \E format \in RecognizedFormats : SetFormat(format)
    \/ \E quality \in {60, 80} : SetQuality(quality)
    \/ \E width \in {0, 2} : SetMaxWidth(width)
    \/ \E height \in {0, 3} : SetMaxHeight(height)
    \/ \E size \in FaviconCheckboxes : ToggleFaviconSize(size)
    \/ \E outputFormat \in {"ico", "png"} : SetFaviconOutputFormat(outputFormat)
    \/ \E size \in PwaCheckboxes : TogglePwaIconSize(size)
    \/ \E count \in {0, 2, 3, 5} : SetSplashCount(count)
    \/ \E color \in {"#ffffff", "#000000"} : SetBackgroundColor(color)
    \/ Settle

Spec == Init /\ [][Next]_vars

\* The component with its results list, its downloads and its unmount,
\* under file selections and changes of tab.
NextUrls ==
    \/ \E selectedFiles \in Selections : HandleFileChange(selectedFiles)
    \/ \E tab \in Tabs : SetActiveTab(tab)
    \/ \E index \in 1..Len(files) :
          \/ HandleRemove(index)
          \/ HandleDownload(index)
          \/ HeicPreviewResolve(index)
    \/ HandleDownloadAll
    \/ \E k \in 1..Len(links) : DownloadAllResolve(k) \/ DownloadAllReject(k)
    \/ Unmount
    \/ Settle

SpecUrls == Init /\ [][NextUrls]_vars

(***************************************************************************)
(* Properties of optimizeImage, under SpecOpt                              *)
(***************************************************************************)

\* The positions of opt.log that record the start of a stage.
startsOfLog == {i \in 1..Len(opt.log) : opt.log[i].ev = "start"}

\* Whether the log records a start of the stage.
started(stage) == \E i \in startsOfLog : opt.log[i].stage = stage

\* The place of a stage in the order the specification fixes.
rank(stage) ==
    CASE stage = "heic" -> 1 [] stage = "resize" -> 2 [] stage = "convert" -> 3

\* Whether the file is HEIC by its type tag or by its extension.
isLegacy(file) == file.type = <<"image", "heic">> \/ endsWithHeic(file.name)

\* The run has passed the HEIC stage (it was skipped or it resolved).
pastHeic ==
    \/ opt.pc = "returned"
    \/ opt.pc \in {"await", "thrown"} /\ opt.stage # "heic"

\* The run has passed the resize stage too.
pastResize ==
    \/ opt.pc = "returned"
    \/ opt.pc \in {"await", "thrown"} /\ opt.stage = "convert"

\* C1: the stages of a run execute in the order HEIC conversion, resize,
\* format conversion: a stage starts only when every earlier start has
\* settled, it comes later in that order than every stage started before,
\* and it is called with the blob the previous stage resolved with (the
\* first with the file optimizeImage was given).
C1_StagesInFixedOrder ==
    \A i \in 1..Len(opt.log) :
        LET e == opt.log[i]
        IN  IF i % 2 = 1
            THEN /\ e.ev = "start"
                 /\ IF i = 1
                    THEN e.file = opt.file
                    ELSE /\ opt.log[i - 1].ev = "resolve"
                         /\ e.file = opt.log[i - 1].file
                         /\ rank(opt.log[i - 1].stage) < rank(e.stage)
            ELSE /\ e.ev \in {"resolve", "reject"}
                 /\ e.stage = opt.log[i - 1].stage

\* A run in which all three stages have run and the result is returned.
C1_Witness ==
    /\ opt.pc = "returned"
    /\ Len(opt.log) = 6
    /\ opt.log[1].stage = "heic" /\ opt.log[3].stage = "resize"
    /\ opt.log[5].stage = "convert"
    /\ opt.result = opt.log[6].file

\* C2: with maxWidth, maxHeight >= 0 the resize stage starts only if both
\* are positive, it does start in every run that gets to it when both are,
\* and a run with at most one of them positive returns a blob of the
\* dimensions of the input.
C2_ResizeIffBothPositive ==
    LET both == opt.options.maxWidth > 0 /\ opt.options.maxHeight > 0
    IN  /\ started("resize") => both
        /\ pastHeic /\ both => started("resize")
        /\ opt.pc = "returned" /\ ~both =>
              /\ opt.result.width = opt.file.width
              /\ opt.result.height = opt.file.height
        /\ opt.pc = "returned" /\ both =>
              /\ opt.result.width = opt.options.maxWidth
              /\ opt.result.height = opt.options.maxHeight

\* A run with maxWidth positive and maxHeight 0 that converted the format
\* and resized nothing.
C2_Witness ==
    /\ opt.pc = "returned"
    /\ opt.options.maxWidth > 0 /\ opt.options.maxHeight = 0
    /\ started("convert") /\ ~started("resize")
    /\ opt.result.width = opt.file.width

\* C3: for a file that is HEIC by type or by extension the first thing a
\* run does, whatever the format asked for, is the conversion of that file
\* to JPEG at config.quality/100; with format original or heic the result
\* is tagged image/jpeg, named .jpg and holds no HEIC payload.
C3_LegacyAlwaysConverted ==
    isLegacy(opt.file) /\ opt.pc # "idle" =>
        /\ opt.log # <<>>
        /\ opt.log[1].stage = "heic"
        /\ opt.log[1].ev = "start"
        /\ opt.log[1].file = opt.file
        /\ Len(opt.log) >= 2 /\ opt.log[2].ev = "resolve" =>
              /\ opt.log[2].file.type = <<"image", "jpeg">>
              /\ opt.log[2].file.enc = "jpeg"
              /\ opt.log[2].file.quality = opt.options.quality
        /\ opt.pc = "returned" /\ opt.options.format \in {"original", "heic"} =>
              /\ opt.result.type = <<"image", "jpeg">>
              /\ opt.result.name[Len(opt.result.name)] = <<"jpg">>
              /\ opt.result.enc # "heic"

\* A HEIC file, detected by its extension alone, returned as a JPEG under
\* format heic.
C3_Witness ==
    /\ opt.file = ImgHEIC
    /\ opt.options.format = "heic"
    /\ opt.pc = "returned"
    /\ opt.result.name = <<<<"IMG">>, <<"jpg">>>>

\* The canonical extension of a target format.
canonicalExtension(format) ==
    CASE format = "webp" -> "webp" [] format = "jpeg" -> "jpg"
      [] format = "png" -> "png" [] format = "avif" -> "avif"

\* C4: for a recognized format the conversion stage starts only if the
\* format is neither original nor heic and does start in every run that
\* gets to it when it is neither; the blob it resolves with is tagged
\* image/<format> and named like its input with the last extension
\* replaced by the canonical one.
C4_ConversionTagAndName ==
    opt.options.format \in RecognizedFormats =>
        LET wanted == opt.options.format \notin {"original", "heic"}
        IN  /\ started("convert") => wanted
            /\ pastResize /\ wanted => started("convert")
            /\ \A i \in 1..Len(opt.log) :
                 opt.log[i].stage = "convert" /\ opt.log[i].ev = "resolve" =>
                    /\ opt.log[i].file.type = <<"image", opt.options.format>>
                    /\ opt.log[i].file.name =
                          Append(stripExtension(opt.log[i - 1].file.name),
                                 <<canonicalExtension(opt.options.format)>>)

\* A PNG converted to JPEG: a.b.png becomes a.b.jpg.
C4_Witness ==
    /\ opt.file = LogoPng
    /\ opt.options.format = "jpeg"
    /\ opt.pc = "returned"
    /\ opt.result.name = <<<<"a">>, <<"b">>, <<"jpg">>>>
    /\ opt.result.type = <<"image", "jpeg">>

\* C5: a stage that rejects ends the run: the call is rejected with the
\* error of that stage, nothing is started after it and no blob is
\* returned; a call that returns has seen no rejection.
C5_FailureAbortsRun ==
    /\ \A i \in 1..Len(opt.log) :
         opt.log[i].ev = "reject" =>
            /\ i = Len(opt.log)
            /\ opt.pc = "thrown"
            /\ opt.error.stage = opt.log[i].stage
            /\ opt.error.message \in stageErrors(opt.log[i].stage, opt.log[i].file)
            /\ opt.result = NoFile
    /\ opt.pc = "thrown" =>
         /\ opt.log # <<>>
         /\ opt.log[Len(opt.log)].ev = "reject"

\* A run whose resize rejects after the HEIC conversion has resolved.
C5_Witness ==
    /\ opt.pc = "thrown"
    /\ Len(opt.log) = 4
    /\ opt.log[2].ev = "resolve"
    /\ opt.error.stage = "resize"
    /\ opt.options.format = "webp"

(***************************************************************************)
(* Properties of generateFavicon, under SpecFav                            *)
(***************************************************************************)

\* The largest of the requested sizes.
largestRequested ==
    LET S == {fav.options.sizes[i] : i \in 1..Len(fav.options.sizes)}
    IN  CHOOSE m \in S : \A x \in S : x <= m

\* C8: with outputFormat png and a non-empty list of positive sizes the
\* file returned is named favicon-{m}x{m}.png and tagged image/png, m the
\* largest size of the list, and its payload is the m x m surface that the
\* task of a list element m created.
C8_PngIsLargestSize ==
    fav.pc = "returned" /\ fav.options.outputFormat = "png" =>
        LET m == largestRequested
        IN  /\ fav.result.name =
                <<<<"favicon-">> \o digits(m) \o <<"x">> \o digits(m), <<"png">>>>
            /\ fav.result.type = <<"image", "png">>
            /\ fav.result.enc = "png"
            /\ fav.result.width = m /\ fav.result.height = m
            /\ fav.picked.width = m /\ fav.picked.height = m
            /\ fav.picked.task \in 1..Len(fav.options.sizes)
            /\ fav.options.sizes[fav.picked.task] = m
            /\ fav.picked = fav.canvases[fav.picked.task]

\* generateFavicon(file, {sizes: [16, 48, 32], outputFormat: 'png'}) has
\* returned favicon-48x48.png.
C8_Witness ==
    /\ fav.pc = "returned"
    /\ fav.options = [sizes |-> <<16, 48, 32>>, outputFormat |-> "png"]
    /\ fav.result.name = <<<<"favicon-", "4", "8", "x", "4", "8">>, <<"png">>>>
    /\ fav.result.width = 48

\* C9: with outputFormat ico and a non-empty list of positive sizes the
\* file returned is named favicon.ico and tagged image/x-icon, and its
\* payload is the PNG encoding of one of the generated surfaces, none of
\* which is wider.
C9_IcoIsWidestSurface ==
    fav.pc = "returned" /\ fav.options.outputFormat = "ico" =>
        /\ fav.result.name = <<<<"favicon">>, <<"ico">>>>
        /\ fav.result.type = <<"image", "x-icon">>
        /\ fav.result.enc = "png"
        /\ \E i \in 1..Len(fav.canvases) : fav.picked = fav.canvases[i]
        /\ \A i \in 1..Len(fav.canvases) :
              fav.canvases[i].width <= fav.picked.width
        /\ Len(fav.canvases) = Len(fav.options.sizes)
        /\ fav.result.width = fav.picked.width
        /\ fav.result.height = fav.picked.height

\* generateFavicon(file, {sizes: [16, 48, 32], outputFormat: 'ico'}) has
\* returned favicon.ico with the 48 x 48 surface.
C9_Witness ==
    /\ fav.pc = "returned"
    /\ fav.options = [sizes |-> <<16, 48, 32>>, outputFormat |-> "ico"]
    /\ fav.result.name = <<<<"favicon">>, <<"ico">>>>
    /\ fav.result.width = 48

(***************************************************************************)
(* processFiles.  The claims below are checked under SpecBatch and         *)
(* FairBatch, which follow one call of processFiles for every list of up   *)
(* to MaxFiles files and every configuration of BatchConfigs.              *)
(***************************************************************************)

\* The input files whose recorded outcome is "ok", in input order.
RECURSIVE succeededInputs(_, _)
succeededInputs(input, outcomes) ==
    IF outcomes = <<>>
    THEN <<>>
    ELSE LET n == Len(outcomes)
             before == succeededInputs(input, SubSeq(outcomes, 1, n - 1))
         IN  IF outcomes[n] = "ok" THEN Append(before, input[n]) ELSE before

originalsOf(list) == [k \in 1..Len(list) |-> list[k].original]

\* C6: for every list of input files and every choice of the files whose
\* pipeline fails, processFiles never throws; a file is passed over without
\* a pipeline exactly when its mime type does not start with image/ and its
\* name does not end in .heic; the entries collected so far are, one each
\* and in input order, the files whose pipeline succeeded; and the list the
\* run stores when it ends is that list.
C6_BatchIsolatesFailures ==
    \A r \in 1..Len(runs) :
        LET run == runs[r]
        IN  /\ run.pc \in {"await", "done"}
            /\ Len(run.outcomes) =
                  (IF run.pc = "done" THEN Len(run.input) ELSE run.i - 1)
            /\ \A j \in 1..Len(run.outcomes) :
                  /\ run.outcomes[j] \in {"ok", "failed", "skipped"}
                  /\ (run.outcomes[j] = "skipped") <=>
                        ~(startsWithImage(run.input[j].type)
                          \/ endsWithHeic(run.input[j].name))
            /\ originalsOf(run.newFiles)
                  = succeededInputs(run.input, run.outcomes)
            /\ run.pc = "done" =>
                  /\ files = run.newFiles
                  /\ originalsOf(files)
                        = succeededInputs(run.input, run.outcomes)

\* Three files of which the second fails: two entries are stored.
C6_Witness ==
    /\ Len(runs) = 1
    /\ runs[1].pc = "done"
    /\ runs[1].input = <<LogoPng, ImgHEIC, LogoPng>>
    /\ runs[1].outcomes = <<"ok", "failed", "ok">>
    /\ originalsOf(files) = <<LogoPng, LogoPng>>

\* C7: every run of processFiles ends: if every awaited pipeline settles,
\* a run that was started eventually has stored its list of results and
\* cleared isProcessing, whichever of its files fail.
C7_BatchCompletes ==
    (Len(runs) > 0) ~>
        (/\ Len(runs) > 0
         /\ runs[1].pc = "done"
         /\ files = runs[1].newFiles
         /\ isProcessing = FALSE)

\* A run in which the first and the last file fail has ended.
C7_Witness ==
    /\ Len(runs) = 1
    /\ runs[1].pc = "done"
    /\ runs[1].outcomes = <<"failed", "ok", "failed">>
    /\ isProcessing = FALSE
    /\ Len(files) = 1

(***************************************************************************)
(* The favicon options of the component.  Checked under Spec.              *)
(***************************************************************************)

\* The run has called generateFavicon: it awaits the call or has recorded
\* how a call ended.
calledGenerateFavicon(run) ==
    /\ run.activeTab = "favicon"
    /\ \/ run.pc = "await"
       \/ \E j \in 1..Len(run.outcomes) : run.outcomes[j] \in {"ok", "failed"}

\* C10: the list of favicon sizes has at least one element in every
\* reachable state, and every run of processFiles that calls
\* generateFavicon does so with a list of at least one size.
C10_SizesNeverEmpty ==
    /\ Len(faviconOptions.sizes) > 0
    /\ \A r \in 1..Len(runs) :
          calledGenerateFavicon(runs[r])
             => Len(runs[r].faviconOptions.sizes) > 0

\* generateFavicon has been called with no size at all and has failed.
C10_EmptySizesCalled ==
    \E r \in 1..Len(runs) :
        /\ runs[r].activeTab = "favicon"
        /\ runs[r].faviconOptions.sizes = <<>>
        /\ runs[r].outcomes = <<"failed">>
        /\ runs[r].pc = "done"
        /\ files = <<>>

(***************************************************************************)
(* generatePWAIcons.  Checked under SpecPwa: one call, in the variant of   *)
(* App.tsx or of part_000, for every configuration of PwaConfigs, every    *)
(* order in which concurrent tasks settle and every toBlob free to hand    *)
(* over null.                                                              *)
(***************************************************************************)

Range(seq) == {seq[k] : k \in 1..Len(seq)}

zipNames(zip) == [k \in 1..Len(zip) |-> zip[k].name]

\* The names the archive is to have for the options requested.
requestedNames(opts) ==
    {<<<<"icon-">> \o digits(opts.iconSizes[i]) \o <<"x">>
          \o digits(opts.iconSizes[i]), <<"png">>>> :
        i \in 1..Len(opts.iconSizes)}
    \cup
    {<<<<"splash-">> \o digits(opts.splashSizes[i].width) \o <<"x">>
          \o digits(opts.splashSizes[i].height), <<"png">>>> :
        i \in 1..Len(opts.splashSizes)}
    \cup {<<<<"manifest">>, <<"json">>>>}

\* C11: whenever generatePWAIcons returns an archive, the names of its
\* entries are exactly icon-{s}x{s}.png for each requested icon size,
\* splash-{w}x{h}.png for each requested splash size and manifest.json,
\* each once.
C11_ArchiveComplete ==
    pwa.pc = "returned" =>
        /\ Range(zipNames(pwa.zip)) = requestedNames(pwa.options)
        /\ \A j, k \in 1..Len(pwa.zip) :
              j # k => pwa.zip[j].name # pwa.zip[k].name

\* App.tsx has returned an archive without the splash screen requested,
\* whose canvas has no pixels.
C11_SplashMissing ==
    /\ pwa.variant = "sequential"
    /\ pwa.pc = "returned"
    /\ pwa.options.iconSizes = <<192>>
    /\ pwa.options.splashSizes = <<[width |-> 0, height |-> 1136]>>
    /\ zipNames(pwa.zip) = <<iconName(192), manifestName>>

\* The manifest of the archive.
manifestOf(zip) ==
    (CHOOSE k \in 1..Len(zip) : zip[k].name = manifestName)

\* C12: the manifest written has the keys name, short_name, icons,
\* background_color, theme_color, display in that order; icons has one
\* element per configured icon size, in configured order, with src
\* icon-{s}x{s}.png, sizes {s}x{s} and type image/png; both colours are
\* the configured background colour and display is standalone.
C12_ManifestShape ==
    pwa.pc \in {"generate", "returned"} =>
        /\ Cardinality({k \in 1..Len(pwa.zip) :
                            pwa.zip[k].name = manifestName}) = 1
        /\ LET m == pwa.zip[manifestOf(pwa.zip)].data
               sizes == pwa.options.iconSizes
           IN  /\ [k \in 1..Len(m) |-> m[k].key]
                     = <<"name", "short_name", "icons", "background_color",
                         "theme_color", "display">>
               /\ Len(m[3].value) = Len(sizes)
               /\ \A i \in 1..Len(sizes) :
                     m[3].value[i] =
                        <<[key |-> "src",
                           value |-> <<<<"icon-">> \o digits(sizes[i])
                                          \o <<"x">> \o digits(sizes[i]),
                                        <<"png">>>>],
                          [key |-> "sizes",
                           value |-> digits(sizes[i]) \o <<"x">>
                                        \o digits(sizes[i])],
                          [key |-> "type", value |-> <<"image", "png">>]>>
               /\ m[4].value = pwa.options.backgroundColor
               /\ m[5].value = pwa.options.backgroundColor
               /\ m[6].value = "standalone"

\* An archive with a black background and the icons 512 and 192, in the
\* order configured, has been returned.
C12_Witness ==
    /\ pwa.pc = "returned"
    /\ pwa.options.iconSizes = <<512, 192>>
    /\ pwa.options.backgroundColor = "#000000"
    /\ pwa.zip[Len(pwa.zip)].name = manifestName
    /\ Len(pwa.zip[Len(pwa.zip)].data[3].value) = 2

\* The descriptors of the first n tasks whose toBlob handed over a blob,
\* in the order of the configuration.
RECURSIVE encodedDescriptors(_, _)
encodedDescriptors(p, n) ==
    IF n = 0 THEN <<>>
    ELSE LET t == p.tasks[n]
             before == encodedDescriptors(p, n - 1)
             name == IF t.kind = "icon"
                     THEN <<<<"icon-">> \o digits(t.width) \o <<"x">>
                               \o digits(t.height), <<"png">>>>
                     ELSE <<<<"splash-">> \o digits(t.width) \o <<"x">>
                               \o digits(t.height), <<"png">>>>
         IN  IF t.blob
             THEN Append(before, [name |-> name, type |-> t.kind])
             ELSE before

\* C13: the preview list of generatePWAIcons (App.tsx) holds the
\* descriptors of the icons encoded so far, in the order of iconSizes, then
\* those of the splash screens encoded so far, in the order of
\* splashSizes, each of the kind of its entry; no splash descriptor comes
\* before an icon descriptor.
C13_PreviewsInConfiguredOrder ==
    pwa.variant = "sequential" /\ pwa.pc # "none" =>
        /\ pwa.previews = encodedDescriptors(pwa, Len(pwa.tasks))
        /\ \A j, k \in 1..Len(pwa.previews) :
              j < k => ~(pwa.previews[j].type = "splash"
                         /\ pwa.previews[k].type = "icon")
        /\ \A k \in 1..Len(pwa.previews) :
              \E e \in Range(pwa.zip) :
                  /\ e.name = pwa.previews[k].name
                  /\ e.name[1][1] = (IF pwa.previews[k].type = "icon"
                                     THEN "icon-" ELSE "splash-")

\* Two icons and two splash screens have been returned with their
\* descriptors.
C13_Witness ==
    /\ pwa.variant = "sequential"
    /\ pwa.pc = "returned"
    /\ pwa.options.iconSizes = <<512, 192>>
    /\ pwa.options.splashSizes = <<[width |-> 750, height |-> 1334],
                                   [width |-> 640, height |-> 1136]>>
    /\ [k \in 1..Len(pwa.previews) |-> pwa.previews[k].type]
          = <<"icon", "icon", "splash", "splash">>
    /\ pwa.previews[1].name = iconName(512)
    /\ pwa.previews[3].name = splashName(750, 1334)

\* C14: in the fan-out of generateFavicon and of the icons of the
\* Promise.all variant of generatePWAIcons, whatever the order in which the
\* tasks settle, the list of surfaces has one surface per size and its
\* i-th surface is the one task i made, of the i-th size of the list.
C14_ResultsInInputOrder ==
    /\ fav.canvases # <<>> =>
          /\ Len(fav.canvases) = Len(fav.options.sizes)
          /\ \A i \in 1..Len(fav.canvases) :
                /\ fav.canvases[i].task = i
                /\ fav.canvases[i].width = fav.options.sizes[i]
                /\ fav.canvases[i].height = fav.options.sizes[i]
    /\ pwa.variant = "parallel" /\ pwa.iconCanvases # <<>> =>
          /\ Len(pwa.iconCanvases) = Len(pwa.options.iconSizes)
          /\ \A i \in 1..Len(pwa.iconCanvases) :
                /\ pwa.iconCanvases[i].task = i
                /\ pwa.iconCanvases[i].width = pwa.options.iconSizes[i]
                /\ pwa.iconCanvases[i].height = pwa.options.iconSizes[i]

\* generateFavicon has returned after its third task settled first and
\* its first task second.
C14_Witness ==
    /\ fav.pc = "returned"
    /\ fav.options.sizes = <<16, 48, 32>>
    /\ fav.settled = <<3, 1, 2>>
    /\ Len(fav.canvases) = 3

\* The names of the first n tasks whose toBlob handed over a blob, each
\* once, in the order of the configuration.
RECURSIVE encodedNames(_, _)
encodedNames(p, n) ==
    IF n = 0 THEN <<>>
    ELSE LET t == p.tasks[n]
             before == encodedNames(p, n - 1)
             name == IF t.kind = "icon"
                     THEN <<<<"icon-">> \o digits(t.width) \o <<"x">>
                               \o digits(t.height), <<"png">>>>
                     ELSE <<<<"splash-">> \o digits(t.width) \o <<"x">>
                               \o digits(t.height), <<"png">>>>
         IN  IF t.blob /\ name \notin Range(before)
             THEN Append(before, name)
             ELSE before

\* C15: the entries of the archive are inserted in an order that does not
\* depend on the order in which the encodes complete: the icons in
\* configured order, then the splash screens in configured order, then
\* manifest.json, in either variant.
C15_InsertionOrderFixed ==
    pwa.pc \in {"generate", "returned"} =>
        zipNames(pwa.zip)
            = Append(encodedNames(pwa, Len(pwa.tasks)),
                     <<<<"manifest">>, <<"json">>>>)

\* part_000 has returned an archive whose icons are in the order their
\* encodes completed, not the configured one.
C15_InsertedAsEncoded ==
    /\ pwa.variant = "parallel"
    /\ pwa.pc = "returned"
    /\ pwa.options.iconSizes = <<512, 192>>
    /\ pwa.options.splashSizes = <<>>
    /\ zipNames(pwa.zip) = <<iconName(192), iconName(512), manifestName>>

\* The archive of App.tsx, which awaits each encode before the next item,
\* has its entries in configured order.
SequentialInsertionOrderFixed ==
    pwa.variant = "sequential" => C15_InsertionOrderFixed

(***************************************************************************)
(* resizeImage, the detection of HEIC, the encodes and the format tag.     *)
(* Checked under SpecOpt.                                                  *)
(***************************************************************************)

\* The positions of the log where stage `stage` resolved; the entry before
\* each holds the blob the stage was called with.
resolvesOf(stage) ==
    {i \in 1..Len(opt.log) :
        opt.log[i].stage = stage /\ opt.log[i].ev = "resolve"}

\* C16: whenever resizeImage resolves, called with a positive width and
\* height, the blob has a surface of exactly that width and height, the
\* mime type and the name of the blob it was called with, and is encoded at
\* quality 0.9 (which a lossless PNG payload does not record).
C16_ResizeExactDimensions ==
    \A i \in resolvesOf("resize") :
        LET in == opt.log[i - 1].file
            out == opt.log[i].file
        IN  /\ opt.options.maxWidth > 0 /\ opt.options.maxHeight > 0
            /\ imageDecodes(in)
            /\ out.width = opt.options.maxWidth
            /\ out.height = opt.options.maxHeight
            /\ out.type = in.type
            /\ out.name = in.name
            /\ out.enc # "png" => out.quality = 90

\* A 5x4 WebP named "shot." stretched to 7x3.
C16_Witness ==
    /\ opt.pc = "returned"
    /\ opt.file = ShotWebp
    /\ opt.options.format = "original"
    /\ opt.result.width = 7 /\ opt.result.height = 3
    /\ opt.result.name = <<<<"shot">>, <<>>>>
    /\ opt.result.type = <<"image", "webp">>
    /\ opt.result.quality = 90

\* The inputs that are HEIC by their mime type, by their extension in any
\* case, or by both.
LegacyInputs == {PhotoHeic, ImgHEIC, ScanHeic, RenamedJpg}

\* C17: a file is treated as HEIC exactly when its mime type is image/heic
\* or its name ends in .heic in any case, either alone being enough; the
\* orchestrator, the loop of processFiles and the preview decide alike,
\* and the eligibility filter lets every such file through.
C17_LegacyDetection ==
    opt.pc # "idle" =>
        LET legacy == opt.file \in LegacyInputs
            entry == [original |-> opt.file, previewUrl |-> 1]
        IN  /\ started("heic") <=> legacy
            /\ processFilesDetectsHeic(opt.file) <=> legacy
            /\ rendersHeicPreview(entry) <=> legacy
            /\ legacy => eligible(opt.file)

\* IMG.HEIC with no mime type is converted as HEIC.
C17_Witness ==
    /\ opt.file = ImgHEIC
    /\ opt.pc = "returned"
    /\ opt.log[1].stage = "heic"
    /\ opt.log[2].ev = "resolve"

\* C18: an encode never hands over a blob whose payload is not in the
\* mime type it is tagged with: where the runtime cannot encode the type
\* asked for, the stage fails.
C18_PayloadMatchesTag ==
    \A i \in resolvesOf("resize") \cup resolvesOf("convert") :
        LET out == opt.log[i].file
        IN  Len(out.type) = 2 /\ out.enc = out.type[2]

\* logo.avif, tagged image/avif, with a PNG payload.
C18_PngTaggedAvif ==
    /\ opt.pc = "returned"
    /\ opt.file = LogoPng
    /\ opt.options.format = "avif"
    /\ opt.result.type = <<"image", "avif">>
    /\ opt.result.name = <<<<"a">>, <<"b">>, <<"avif">>>>
    /\ opt.result.enc = "png"

\* C19: optimizeImage rejects a format outside the recognized ones.
C19_UnrecognizedFormatRejected ==
    opt.options.format \notin {"webp", "jpeg", "png", "avif", "heic", "original"}
        => opt.pc # "returned"

\* optimizeImage asked for bmp has returned the file it was given.
C19_UnconvertedReturned ==
    /\ opt.options.format = "bmp"
    /\ opt.file = LogoPng
    /\ opt.options.maxWidth = 0
    /\ opt.pc = "returned"
    /\ opt.result = LogoPng
    /\ opt.log = <<>>

\* C20: no stage changes the name, the mime type or the payload of the
\* blob it is called with, and the file optimizeImage was given stays as it
\* was; every stage that resolves hands over an object that did not exist
\* before; a call in which no stage ran returns the file it was given.
C20_InputsKeptOutputsNew ==
    opt.pc # "idle" =>
        /\ opt.heap[1] = opt.file
        /\ \A i \in 1..Len(opt.log) :
              opt.heap[opt.log[i].obj] = opt.log[i].file
        /\ \A i \in 1..Len(opt.log) :
              opt.log[i].ev = "resolve" =>
                 /\ opt.log[i].obj # 1
                 /\ \A j \in 1..(i - 1) : opt.log[j].obj # opt.log[i].obj
        /\ opt.pc = "returned" =>
              /\ opt.heap[opt.obj] = opt.result
              /\ (opt.log = <<>>) <=> (opt.obj = 1)

\* A HEIC file resized and converted: three new objects, the one given
\* untouched.
C20_Witness ==
    /\ opt.pc = "returned"
    /\ opt.file = PhotoHeic
    /\ Len(opt.heap) = 4
    /\ opt.heap[1] = PhotoHeic
    /\ opt.obj = 4
    /\ opt.result.type = <<"image", "webp">>

(***************************************************************************)
(* What a call of the pipeline does beside returning.  Checked under       *)
(* SpecOpt.                                                                *)
(***************************************************************************)

\* C21: a call of optimizeImage leaves everything outside its result as it
\* was: it shows no notification.
C21_NoNotification ==
    opt.toasts = <<>>

\* optimizeImage has returned a PNG and has shown a warning on the way.
C21_WarningShown ==
    /\ opt.pc = "returned"
    /\ opt.file = LogoPng
    /\ opt.options.format = "png"
    /\ opt.toasts = <<"warning: PNG quality parameter has no effect">>
    /\ opt.result.type = <<"image", "png">>

(***************************************************************************)
(* The splash screens of generatePWAIcons.  Checked under SpecPwa.         *)
(***************************************************************************)

\* The splash tasks that have been started and have not ended.
splashesInFlight(p) ==
    {i \in 1..Len(p.tasks) :
        p.tasks[i].kind = "splash" /\ p.tasks[i].pc \notin {"waiting", "done"}}

\* C22: the splash screens are made one at a time in configured order: at
\* most one splash task is in flight, and a splash task is started only
\* when every splash task before it has been encoded and registered.
C22_SplashesOneAtATime ==
    pwa.pc # "none" =>
        /\ Cardinality(splashesInFlight(pwa)) <= 1
        /\ \A i, j \in 1..Len(pwa.tasks) :
              /\ pwa.tasks[i].kind = "splash" /\ pwa.tasks[j].kind = "splash"
              /\ i < j
              /\ pwa.tasks[j].pc # "waiting"
              => pwa.tasks[i].pc = "done"

\* part_000 awaits the images of two splash screens at the same time.
C22_TwoSplashesInFlight ==
    /\ pwa.variant = "parallel"
    /\ pwa.pc = "splashes"
    /\ Len(pwa.options.splashSizes) = 2
    /\ \A i \in 1..Len(pwa.tasks) :
          pwa.tasks[i].kind = "splash" => pwa.tasks[i].pc = "image"

\* The loop of App.tsx, which awaits each splash screen before the next.
SequentialSplashesOneAtATime ==
    pwa.variant = "sequential" => C22_SplashesOneAtATime

(***************************************************************************)
(* The surface of a format conversion.  Checked under SpecOpt.             *)
(***************************************************************************)

\* C23: the JPEG conversion fills the whole surface with opaque white
\* before it draws the image and before it encodes, so where the source is
\* transparent the output is white; the WebP, AVIF and PNG conversions draw
\* on a surface that nothing was filled with.
C23_JpegFilledWhiteBeforeDraw ==
    /\ jpegContextCalls[1] = ContextCall("fillRect", "#fff")
    /\ \A i \in resolvesOf("convert") :
          LET out == opt.log[i].file
          IN  /\ out.type = <<"image", "jpeg">> => out.fill = "#fff"
              /\ out.type # <<"image", "jpeg">> => out.fill = "none"

\* A PNG converted to JPEG on a surface filled with white.
C23_Witness ==
    /\ opt.pc = "returned"
    /\ opt.file = LogoPng
    /\ opt.options.format = "jpeg"
    /\ opt.options.maxWidth = 0
    /\ opt.result.type = <<"image", "jpeg">>
    /\ opt.result.fill = "#fff"

(***************************************************************************)
(* The PNG conversion and its quality parameter.  Checked under            *)
(* SpecConvert: one call of optimizeImage, or of a conversion function by  *)
(* itself, for every file and configuration.                               *)
(***************************************************************************)

\* C24: every PNG conversion takes the quality and warns that it has no
\* effect, whether optimizeImage calls convertToPNG or it is called by
\* itself; the file it resolves with has the dimensions of its input, the
\* type image/png and the name with the extension png, whatever the
\* quality.
C24_PngWarnsOnEveryPath ==
    opt.options.format = "png" =>
        /\ started("convert") =>
              \E k \in 1..Len(opt.toasts) :
                  opt.toasts[k] = "warning: PNG quality parameter has no effect"
        /\ \A i \in resolvesOf("convert") :
              LET in == opt.log[i - 1].file
                  out == opt.log[i].file
              IN  \A quality \in {0, 60, 80, 100} :
                     LET other == convertToPNG(in, quality, out.enc)
                     IN  /\ other.width = out.width /\ out.width = in.width
                         /\ other.height = out.height /\ out.height = in.height
                         /\ other.type = out.type
                         /\ out.type = <<"image", "png">>
                         /\ other.name = out.name

\* convertToPNG, called by itself, has resolved and no toast was shown.
C24_DirectCallSilent ==
    /\ opt.entry = "convert"
    /\ opt.pc = "returned"
    /\ opt.file = LogoPng
    /\ opt.options.format = "png"
    /\ opt.result.type = <<"image", "png">>
    /\ opt.toasts = <<>>

(***************************************************************************)
(* generateFavicon and the order of the sizes.  Checked under SpecFav.     *)
(***************************************************************************)

\* The lists that hold the elements of a list of different elements, in
\* any order.
permutationsOf(sizes) ==
    {q \in [1..Len(sizes) -> Range(sizes)] : Range(q) = Range(sizes)}

\* C25: the file generateFavicon returns depends on the set of sizes only:
\* called with any permutation of a list of different positive sizes, it
\* returns, for png as for ico, a file of the same name, the same mime
\* type and the same size selected.
C25_SizesOrderIndependent ==
    LET sizes == fav.options.sizes
    IN  /\ fav.pc = "returned"
        /\ \A i, j \in 1..Len(sizes) : i # j => sizes[i] # sizes[j]
        /\ \A i \in 1..Len(sizes) : sizes[i] > 0
        => \A q \in permutationsOf(sizes) :
              LET outcomes == generateFaviconOutcomes(
                                  fav.file, [fav.options EXCEPT !.sizes = q])
              IN  /\ \E out \in outcomes : out.ok
                  /\ \A out \in outcomes :
                        out.ok =>
                           /\ out.file.name = fav.result.name
                           /\ out.file.type = fav.result.type
                           /\ out.file.width = fav.result.width
                           /\ out.file.height = fav.result.height

\* generateFavicon has returned the 48 x 48 icon for the sizes 16, 48, 32,
\* as it does for 48, 32, 16.
C25_Witness ==
    /\ fav.pc = "returned"
    /\ fav.options = [sizes |-> <<16, 48, 32>>, outputFormat |-> "ico"]
    /\ fav.result.width = 48
    /\ <<48, 32, 16>> \in permutationsOf(fav.options.sizes)
    /\ \E out \in generateFaviconOutcomes(
                      fav.file, [fav.options EXCEPT !.sizes = <<48, 32, 16>>]) :
          out.ok /\ out.file.width = 48

(***************************************************************************)
(* The layout of a splash screen.  Checked under SpecPwa.                  *)
(***************************************************************************)

\* The splash tasks whose canvas has been drawn.
splashesDrawn(p) ==
    {i \in 1..Len(p.tasks) :
        p.tasks[i].kind = "splash" /\ p.tasks[i].pc \in {"blob", "ready", "done"}}

\* C26: for a splash size w x h with w, h > 0 the surface is exactly
\* w x h, it is filled with the background colour before the image is
\* drawn, and the image is drawn into a square of side min(w, h) * 0.8
\* with the same margin left and right and the same margin above and
\* below, so that the square lies inside the surface (lengths in tenths of
\* a pixel).
C26_SplashCenteredOnBackground ==
    \A i \in splashesDrawn(pwa) :
        LET t == pwa.tasks[i]
            w == t.width
            h == t.height
            m == IF w <= h THEN w ELSE h
            d == t.drawn
        IN  w > 0 /\ h > 0 =>
              /\ t.canvas.width = w /\ t.canvas.height = h
              /\ d.imageSize * 10 = m * 10 * 8
              /\ d.x = 10 * w - (d.x + d.imageSize)
              /\ d.y = 10 * h - (d.y + d.imageSize)
              /\ d.x >= 0 /\ d.y >= 0
              /\ d.x + d.imageSize <= 10 * w
              /\ d.y + d.imageSize <= 10 * h
              /\ \A k \in 1..Len(pwa.zip) :
                    pwa.zip[k].name
                        = <<<<"splash-">> \o digits(w) \o <<"x">> \o digits(h),
                            <<"png">>>>
                    => /\ pwa.zip[k].data.fill = pwa.options.backgroundColor
                       /\ pwa.zip[k].data.width = w
                       /\ pwa.zip[k].data.height = h

\* A 640 x 1136 splash screen on black: the image is 512 wide and high, 64
\* from the left and 312 from the top.
C26_Witness ==
    /\ pwa.variant = "sequential"
    /\ pwa.pc = "returned"
    /\ pwa.options.backgroundColor = "#000000"
    /\ pwa.options.iconSizes = <<>>
    /\ pwa.options.splashSizes = <<[width |-> 640, height |-> 1136]>>
    /\ pwa.tasks[1].drawn = [imageSize |-> 5120, x |-> 640, y |-> 3120]
    /\ pwa.zip[1].data.fill = "#000000"

(***************************************************************************)
(* The lifetime of object URLs.  Checked under SpecUrls.                   *)
(***************************************************************************)

\* Nothing is left to happen: the component is unmounted, every run of
\* processFiles has ended and no archive is being generated.
quiescent ==
    /\ ~mounted
    /\ \A r \in 1..Len(runs) : runs[r].pc = "done"
    /\ \A k \in 1..Len(links) : links[k].state # "pending"

\* C27: every object URL has a release point: once the component is
\* unmounted and nothing is left to happen, each URL created by
\* processFiles, generatePWAIcons, handleDownload, handleDownloadAll and
\* HeicPreview has been revoked.
C27_EveryUrlReleased ==
    quiescent =>
        /\ \A i \in 1..Len(urls) : urls[i] = "revoked"
        /\ \A k \in 1..Len(links) : links[k].state # "live"

\* After a download of the only result and the unmount, the preview URLs
\* are revoked and the URL made for the download is not.
C27_DownloadUrlLeaked ==
    /\ quiescent
    /\ Len(runs) = 1
    /\ Len(files) = 1
    /\ urls = <<"revoked", "revoked">>
    /\ links = <<Link("handleDownload", 0, "live")>>

\* C28: no object URL is revoked while an entry that is displayed refers
\* to it: the URLs of the entries that remain after handleRemove are valid,
\* and so are those of the list displayed while processFiles runs.
C28_DisplayedUrlsValid ==
    mounted =>
        \A k \in 1..Len(files) :
            \A u \in urlsOf(files[k]) : urls[u] = "live"

\* Of two results the first was removed, no run is in flight, and the
\* preview URLs of the entry that remains are revoked.
C28_RemainingEntryRevoked ==
    /\ mounted
    /\ ~isProcessing
    /\ Len(runs) = 1
    /\ runs[1].pc = "done"
    /\ Len(runs[1].newFiles) = 2
    /\ files = <<runs[1].newFiles[2]>>
    /\ urls[files[1].previewUrl] = "revoked"
    /\ urls[files[1].optimizedPreviewUrl] = "revoked"

(***************************************************************************)
(* Overlapping runs of processFiles.  Checked under Spec.                  *)
(***************************************************************************)

\* The runs that have not ended.
inFlight == {r \in 1..Len(runs) : runs[r].pc # "done"}

\* C29: when every run has ended, the list displayed is the one the run
\* started last, with the most recent configuration and tab, has computed,
\* however the runs were interleaved.
C29_LatestRunDisplayed ==
    runs # <<>> /\ inFlight = {} =>
        /\ runs[Len(runs)].activeTab = activeTab
        /\ runs[Len(runs)].options = options
        /\ files = runs[Len(runs)].newFiles

\* A run started on the optimize tab has ended after the run the change
\* to the favicon tab started: the list displayed is the older run's.
C29_OlderRunDisplayed ==
    /\ Len(runs) = 2
    /\ inFlight = {}
    /\ runs[1].activeTab = "optimize"
    /\ runs[2].activeTab = "favicon"
    /\ activeTab = "favicon"
    /\ runs[2].newFiles # <<>>
    /\ files = runs[1].newFiles
    /\ files # runs[2].newFiles
    /\ files[1].optimized.type = <<"image", "webp">>

\* C30: the processing flag is true exactly while a run of processFiles is
\* in flight.
C30_ProcessingIffInFlight ==
    isProcessing <=> inFlight # {}

\* Of two overlapping runs the first has ended and has cleared the flag
\* while the second still awaits a pipeline.
C30_FlagClearedEarly ==
    /\ Len(runs) = 2
    /\ runs[1].pc = "done"
    /\ runs[2].pc = "await"
    /\ runs[2].outcomes = <<>>
    /\ ~isProcessing

(***************************************************************************)
(* optimizeImage with nothing to do.  Checked under SpecOpt.               *)
(***************************************************************************)

\* C31: for a file that is not HEIC, with maxWidth or maxHeight 0 and the
\* format original or heic, optimizeImage runs no stage and returns the
\* very file it was given, name, mime type and payload as they were.
C31_NothingToDoReturnsInput ==
    /\ opt.pc # "idle"
    /\ ~isLegacy(opt.file)
    /\ opt.options.maxWidth = 0 \/ opt.options.maxHeight = 0
    /\ opt.options.format \in {"original", "heic"}
    => /\ opt.pc = "returned"
       /\ opt.log = <<>>
       /\ opt.result = opt.file
       /\ opt.obj = 1
       /\ opt.heap = <<opt.file>>

\* a.b.png, asked for as heic with a width alone, is returned as it is.
C31_Witness ==
    /\ opt.pc = "returned"
    /\ opt.file = LogoPng
    /\ opt.options.format = "heic"
    /\ opt.options.maxWidth = 2 /\ opt.options.maxHeight = 0
    /\ opt.result = LogoPng
    /\ opt.obj = 1
    /\ opt.log = <<>>

(***************************************************************************)
(* The surface the two outputs of generateFavicon are made of.  Checked    *)
(* under SpecFav, whose lists of sizes have repeated elements too.         *)
(***************************************************************************)

\* The surface generateIcoFile selects (in App.tsx and in part_000) and
\* the one the png branch selects of the canvases of the call.
icoSurface == reduceLargest(fav.canvases[1], Tail(fav.canvases))

icoSurfaceOfPart000 ==
    reduceLargestKeepsTies(fav.canvases[1], Tail(fav.canvases))

pngSurface == fav.canvases[pngCanvasIndex(fav.options.sizes)]

\* The places of the largest size in the list.
placesOfLargest ==
    {i \in 1..Len(fav.options.sizes) :
        fav.options.sizes[i] = mathMax(fav.options.sizes)}

\* C32 as stated: for every list of positive sizes, repeated ones
\* included, the surface generateIcoFile selects is the very surface the
\* png branch selects by index.
C32_SameSurface ==
    fav.canvases # <<>> => icoSurface = pngSurface

\* C32 as amended: both surfaces are of the largest size of the list; the
\* png branch selects the surface of the first place of that size, and so
\* does generateIcoFile of part_000, generateIcoFile of App.tsx that of the
\* last, so that they are one surface exactly when the largest size is in
\* the list once.
C32_SameSizeFirstAndLast ==
    fav.canvases # <<>> =>
        LET m == mathMax(fav.options.sizes)
        IN  /\ icoSurface.width = m /\ icoSurface.height = m
            /\ pngSurface.width = m /\ pngSurface.height = m
            /\ pngSurface.task \in placesOfLargest
            /\ icoSurface.task \in placesOfLargest
            /\ \A i \in placesOfLargest :
                  pngSurface.task <= i /\ i <= icoSurface.task
            /\ (icoSurface = pngSurface) <=> (Cardinality(placesOfLargest) = 1)
            /\ icoSurfaceOfPart000 = pngSurface
            /\ fav.pc \in {"encode", "returned"} =>
                  fav.picked = (IF fav.options.outputFormat = "ico"
                                THEN icoSurface ELSE pngSurface)

\* For the sizes 48, 16, 48 the ico output is made of the third surface,
\* where the png output would be made of the first.
C32_Witness ==
    /\ fav.pc = "returned"
    /\ fav.options = [sizes |-> <<48, 16, 48>>, outputFormat |-> "ico"]
    /\ fav.picked.task = 3
    /\ pngSurface.task = 1
    /\ fav.result.width = 48

(***************************************************************************)
(* C33: previews and image entries of the archive of generatePWAIcons.     *)
(***************************************************************************)

\* The image entries of the archive: every entry but manifest.json.
imageEntries(zip) == SelectSeq(zip, LAMBDA e : e.name # manifestName)

\* C33: in the result of generatePWAIcons (App.tsx) every preview
\* descriptor names an icon-* or splash-* entry of the archive, every such
\* entry has exactly one descriptor, and no two descriptors share a name.
C33_PreviewsMatchArchive ==
    pwa.variant = "sequential" /\ pwa.pc = "returned" =>
        LET images == imageEntries(pwa.zip)
        IN  /\ \A k \in 1..Len(pwa.previews) :
                  /\ pwa.previews[k].name[1][1] \in {"icon-", "splash-"}
                  /\ \E e \in Range(images) : e.name = pwa.previews[k].name
            /\ \A e \in Range(images) :
                  Cardinality({k \in 1..Len(pwa.previews) :
                                  pwa.previews[k].name = e.name}) = 1
            /\ \A j, k \in 1..Len(pwa.previews) :
                  j # k => pwa.previews[j].name # pwa.previews[k].name

\* A size given twice: the archive has one entry icon-192x192.png and the
\* result two descriptors of that name.
C33_TwoDescriptorsOneEntry ==
    /\ pwa.variant = "sequential"
    /\ pwa.pc = "returned"
    /\ pwa.options.iconSizes = <<192, 192>>
    /\ Len(pwa.previews) >= 2
    /\ pwa.previews[1].name = iconName(192)
    /\ pwa.previews[2].name = iconName(192)
    /\ Len(SelectSeq(pwa.zip, LAMBDA e : e.name = iconName(192))) = 1

(***************************************************************************)
(* C34: the archive of handleDownloadAll, under SpecDownloadAll.           *)
(***************************************************************************)

\* C34: the archive handleDownloadAll builds has exactly one entry per
\* displayed result, also when two results have the same output name.
C34_OneEntryPerResult ==
    \A k \in 1..Len(links) :
        links[k].by = "handleDownloadAll" => Len(links[k].zip) = Len(files)

\* a.b.png and a.b.jpg were both converted to a.b.webp: the list shows two
\* results and the archive downloaded has one entry.
C34_TwoResultsOneEntry ==
    /\ activeTab = "optimize"
    /\ Len(files) = 2
    /\ files[1].original = LogoPng
    /\ files[2].original = LogoJpg
    /\ files[1].optimized.name = files[2].optimized.name
    /\ \E k \in 1..Len(links) :
          /\ links[k].by = "handleDownloadAll"
          /\ links[k].state = "live"
          /\ Len(links[k].zip) = 1

(***************************************************************************)
(* C35: a removed result and the re-run effect, under SpecUrls.            *)
(***************************************************************************)

\* Whether the list displays a result for the file that a call of
\* processFiles made after the removal has produced.
broughtBack(rec) ==
    \E k \in 1..Len(files) :
        /\ files[k].original = rec.file
        /\ \E r \in (rec.runs + 1)..Len(runs) :
              files[k] \in Range(runs[r].newFiles)

\* C35: a result removed with handleRemove stays removed: until files are
\* selected again, no later change of the configuration or of the tab
\* brings back a result for the removed file.
C35_RemovedStaysRemoved == \A rec \in removed : ~broughtBack(rec)

\* The result of a.b.png was removed from the list of the optimize tab,
\* the tab was changed afterwards, and the list of the favicon tab shows a
\* result for a.b.png again.
C35_RemovedResultBack ==
    /\ inputFiles = <<LogoPng>>
    /\ removed = {[file |-> LogoPng, runs |-> 1]}
    /\ Len(runs) = 2
    /\ runs[2].activeTab = "favicon"
    /\ runs[2].input = inputFiles
    /\ ~isProcessing
    /\ Len(files) = 1
    /\ files[1].original = LogoPng

====
